---- MODULE Spec2Model ----
(***************************************************************************)
(* static-web: the html_lex -> html_parse -> html_build pipeline of        *)
(* src/html_lexer.c and src/html_parser.c, with the helpers of             *)
(* src/unicode.c it calls.                                                 *)
(*                                                                         *)
(* Offsets are code-point offsets from in_data (a C pointer p is modelled  *)
(* as p - in_data).  Token, node and attribute tables are the fixed-size   *)
(* arrays of html_parser.h; their capacities are scaled down so that the   *)
(* capacity branches of add_token and push_node can be explored.  A read   *)
(* past the input buffer or past the token count is modelled by what the   *)
(* memory there may hold (pad, stale); a read or write beyond that ends    *)
(* the run in pc = "crash".                                                *)
(*                                                                         *)
(* Spec is the pipeline on decoded input.  SpecUtf8 is the UTF-8 decoder   *)
(* unicode_read_utf8_string on byte strings, SpecCharType is               *)
(* char_type_check on single code points.                                  *)
(***************************************************************************)
EXTENDS Integers, Sequences, FiniteSets, TLC

(***************************************************************************)
(* html_parser.h: capacities (scaled) and token ids (the enum's values)    *)
(***************************************************************************)
HTML_PARSER_MAX_TOKENS == 17
HTML_PARSER_MAX_NODES == 3
HTML_PARSER_MAX_ATTRIBUTES == 20
HTML_PARSER_MAX_STACK_SIZE == 5
HTML_PARSER_MAX_SIZE == 48

HTML_TOKEN_GREATERTHAN == 0
HTML_TOKEN_LESSTHAN == 1
HTML_TOKEN_IDENTIFIER == 2
HTML_TOKEN_WHITESPACE == 3
HTML_TOKEN_EQUAL == 4
HTML_TOKEN_SINGLEQUOTE == 5
HTML_TOKEN_DOUBLEQUOTE == 6
HTML_TOKEN_AMPERSAND == 7
HTML_TOKEN_EXCLAMATIONMARK == 8
HTML_TOKEN_HYPHEN == 9
HTML_TOKEN_COLON == 10
HTML_TOKEN_OPENBRACE == 11
HTML_TOKEN_CLOSEBRACE == 12
HTML_TOKEN_OPENPAREN == 13
HTML_TOKEN_CLOSEPAREN == 14
HTML_TOKEN_SEMICOLON == 15
HTML_TOKEN_ASTERISK == 16
HTML_TOKEN_HASH == 17
HTML_TOKEN_COMMA == 18
HTML_TOKEN_SLASH == 19
HTML_TOKEN_HTML == 20
HTML_TOKEN_DATA == 21
HTML_TOKEN_SCRIPT == 22
HTML_TOKEN_STRING == 23
HTML_TOKEN_TEXT == 24
HTML_TOKEN_COMMENT == 25
HTML_TOKEN_STYLE == 26
HTML_TOKEN_INCLUDE == 27
HTML_TOKEN_END == 28

(***************************************************************************)
(* html_lexer.c: keyword ids and character classes                         *)
(***************************************************************************)
KEYWORD_HTML == 0
KEYWORD_DATA == 1
KEYWORD_INCLUDE == 2
KEYWORD_SCRIPT_START == 3
KEYWORD_SCRIPT_END == 4
KEYWORD_STYLE_START == 5
KEYWORD_STYLE_END == 6
KEYWORD_COMMENT_START == 7
KEYWORD_COMMENT_END == 8

CHAR_INFO_IDENTIFIER == 1
CHAR_INFO_NUMBER == 2
CHAR_INFO_NOT_TEXT == 4
CHAR_INFO_WHITESPACE == 8

(* unicode_read_ascii_char: the code point of an ASCII character *)
CharCode ==
    ("\t" :> 9) @@ ("\n" :> 10) @@ ("\r" :> 13) @@ (" " :> 32) @@ ("!" :> 33) @@
    ("\"" :> 34) @@ ("&" :> 38) @@ ("'" :> 39) @@ ("-" :> 45) @@ ("." :> 46) @@
    ("/" :> 47) @@ ("1" :> 49) @@ ("2" :> 50) @@ ("<" :> 60) @@ ("=" :> 61) @@ (">" :> 62) @@
    ("\\" :> 92) @@ ("_" :> 95) @@ ("{" :> 123) @@ ("}" :> 125) @@
    ("a" :> 97) @@ ("b" :> 98) @@ ("c" :> 99) @@ ("d" :> 100) @@ ("e" :> 101) @@
    ("h" :> 104) @@ ("i" :> 105) @@ ("l" :> 108) @@ ("m" :> 109) @@ ("n" :> 110) @@
    ("o" :> 111) @@ ("p" :> 112) @@ ("r" :> 114) @@ ("s" :> 115) @@ ("t" :> 116) @@ ("u" :> 117) @@
    ("v" :> 118) @@ ("x" :> 120) @@ ("y" :> 121)

(* unicode_read_ascii_string: an ASCII literal as a code-point sequence *)
unicode_read_ascii_string(str) == [i \in 1..Len(str) |-> CharCode[str[i]]]

(* REGISTER_KEYWORD table, indexed by keyword id + 1 *)
keyword_data ==
    << unicode_read_ascii_string(<<"h","t","m","l">>),
       unicode_read_ascii_string(<<"d","a","t","a">>),
       unicode_read_ascii_string(<<"i","n","c","l","u","d","e">>),
       unicode_read_ascii_string(<<"<","s","c","r","i","p","t">>),
       unicode_read_ascii_string(<<"<","/","s","c","r","i","p","t",">">>),
       unicode_read_ascii_string(<<"<","s","t","y","l","e">>),
       unicode_read_ascii_string(<<"<","/","s","t","y","l","e",">">>),
       unicode_read_ascii_string(<<"<","!","-","-">>),
       unicode_read_ascii_string(<<"-","-",">">>) >>

keyword_size == [k \in 1..Len(keyword_data) |-> Len(keyword_data[k])]

(* lexer.char_info as html_lex fills it *)
char_info ==
    [ch \in 0..127 |->
        IF ch \in {CharCode["\n"], CharCode[" "], CharCode["\r"], CharCode["\t"]}
            THEN CHAR_INFO_WHITESPACE
        ELSE IF ch \in {CharCode["<"], CharCode[">"], CharCode["&"], CharCode["'"],
                        CharCode["\""], CharCode["{"], CharCode["}"]}
            THEN CHAR_INFO_NOT_TEXT
        ELSE IF ch = CharCode["_"] \/ ch \in 65..90 \/ ch \in 97..122
            THEN CHAR_INFO_IDENTIFIER
        ELSE IF ch \in 48..57
            THEN CHAR_INFO_NUMBER
        ELSE 0]

(* the indices at which char_type_check(ch, flags) reads lexer->char_info:  *)
(* ch itself unless ch > 127; ch is a signed 32-bit code point              *)
char_info_index(ch) == IF ch > 127 THEN {} ELSE {ch}

(* char_type_check: (char_info[ch] & flags) != 0; every entry of char_info  *)
(* holds at most one flag bit, so the mask test is membership in `flags`.   *)
char_type_check(ch, flags) ==
    IF ch > 127 THEN FALSE ELSE char_info[ch] \in flags

(***************************************************************************)
(* Bounds of the model and the inputs it explores                          *)
(***************************************************************************)
MaxFrags == 3
PadLen == 2
StalePad == 1

(* size_t arithmetic wraps; the modulus is scaled to fit TLC's integers *)
SIZE_T_RANGE == 2 ^ 30

ToSizeT(x) == x % SIZE_T_RANGE

RECURSIVE Concat(_)
Concat(ss) == IF ss = << >> THEN << >> ELSE Head(ss) \o Concat(Tail(ss))

FragSeqs(F, n) == UNION { [1..k -> F] : k \in 0..n }

StringFrags ==
    { unicode_read_ascii_string(<<"\"">>), unicode_read_ascii_string(<<"'">>),
      unicode_read_ascii_string(<<"\\">>), unicode_read_ascii_string(<<"a">>),
      unicode_read_ascii_string(<<".">>) }

CdataFrags ==
    { keyword_data[KEYWORD_COMMENT_START + 1], keyword_data[KEYWORD_COMMENT_END + 1],
      keyword_data[KEYWORD_SCRIPT_START + 1], keyword_data[KEYWORD_SCRIPT_END + 1],
      keyword_data[KEYWORD_STYLE_START + 1], keyword_data[KEYWORD_STYLE_END + 1],
      unicode_read_ascii_string(<<">">>), unicode_read_ascii_string(<<" ">>) }

TagFrags ==
    { unicode_read_ascii_string(<<"<","a",">">>),
      unicode_read_ascii_string(<<"<","h","t","m","l",">">>),
      unicode_read_ascii_string(<<"<","/","a",">">>),
      unicode_read_ascii_string(<<"<","/","h","t","m","l",">">>),
      unicode_read_ascii_string(<<"{","{","a","}","}">>),
      unicode_read_ascii_string(<<"<","a">>),
      unicode_read_ascii_string(<<" ">>),
      unicode_read_ascii_string(<<"=">>) }

(* named documents: the specification's examples and inputs that reach the   *)
(* capacity branches                                                        *)
DocABCA == unicode_read_ascii_string(
    <<"<","a",">","<","b",">","<","c",">","<","/","a",">">>)
DocDiv == unicode_read_ascii_string(
    <<"<","d","i","v",">","<","/","d","i","v",">">>)
DocDivSpan == unicode_read_ascii_string(
    <<"<","d","i","v",">","<","s","p","a","n",">","<","/","s","p","a","n",">",
      "<","/","d","i","v",">">>)
DocDivClassX == unicode_read_ascii_string(
    <<"<","d","i","v"," ","c","l","a","s","s","=","\"","x","\"">>)
DocDivOpen == unicode_read_ascii_string(<<"<","d","i","v">>)
DocCommentGt == unicode_read_ascii_string(
    <<"<","!","-","-"," ","x",">","y"," ","-","-",">","<","a"," ","b","=","\"","c","\"",">">>)
DocEscaped == unicode_read_ascii_string(
    <<"<","a"," ","b","=","\"","x","\\","\"","y","\"",">","'","\"","'">>)
DocFull == unicode_read_ascii_string(
    <<"<","a",">","<","a",">","<","a",">","<","a","=">>)
DocNested == unicode_read_ascii_string(
    <<"<","h","t","m","l",">","<","a",">","{","{"," ","x"," ","}","}",
      "<","/","h","t","m","l",">">>)

DocInputDisabled == unicode_read_ascii_string(
    <<"<","i","n","p","u","t"," ","d","i","s","a","b","l","e","d",">">>)
DocInputTypeText == unicode_read_ascii_string(
    <<"<","i","n","p","u","t"," ","t","y","p","e","=","\"","t","e","x","t","\"",">">>)
DocTwoAttributes == unicode_read_ascii_string(
    <<"<","a"," ","b"," ","c"," ","="," ","'","d","'"," ","e",">">>)
DocDivData == unicode_read_ascii_string(
    <<"<","d","i","v"," ","d","a","t","a","=","\"","p","e","o","p","l","e","\"",">">>)
DocHtmlIncludeData == unicode_read_ascii_string(
    <<"<","h","t","m","l"," ","i","n","c","l","u","d","e","=","\"",
      "t","a","b","l","e","1",".","d","a","t"," ","t","a","b","l","e","2",".","d","a","t",
      "\""," ","d","a","t","a","=","\"","m","a","i","n","_","t","a","b","l","e","\"",">">>)
DocVarMalformed == unicode_read_ascii_string(
    <<"<","a",">","{","{"," ","x"," ","}","<","/","a",">">>)
DocData == unicode_read_ascii_string(
    <<"<","d","a","t","a",">","<","/","d","a","t","a",">">>)
DocSiblings == unicode_read_ascii_string(
    <<"<","a",">","<","/","a",">","<","b",">","<","/","b",">">>)
DocLinesSyntax == unicode_read_ascii_string(
    <<"<","a",">","\n","\n"," ","<","a","=">>)
DocLinesString == unicode_read_ascii_string(
    <<"a","\n","b"," ","\"","c","\n">>)
DocVariablesFull == unicode_read_ascii_string(
    <<"{","{","a","}","}","{","{","a","}","}","{","{","a","}","}","<","a">>)
DocTokensFullString ==
    [i \in 1..HTML_PARSER_MAX_TOKENS |-> CharCode["="]]
    \o unicode_read_ascii_string(<<"'","a","'">>)
DocTokensFull == [i \in 1..HTML_PARSER_MAX_TOKENS + 1 |-> CharCode["="]]
DocHtmlx == unicode_read_ascii_string(<<"h","t","m","l","x">>)
DocLongName ==
    unicode_read_ascii_string(<<"<">>) \o [i \in 1..HTML_PARSER_MAX_SIZE \div 2 |-> CharCode["a"]]
    \o unicode_read_ascii_string(<<">","<","/">>)
    \o [i \in 1..HTML_PARSER_MAX_SIZE \div 2 |-> CharCode["a"]]
    \o unicode_read_ascii_string(<<">">>)
DocFullAmpersand == unicode_read_ascii_string(
    <<"<","a",">","<","a",">","<","a",">","<","a",">","&">>)

(* every input of one code point: the ASCII range and three code points     *)
(* beyond it (two, three and four bytes of UTF-8)                           *)
SingleCodePoints == { <<c>> : c \in 0..127 \cup {233, 8364, 1114111} }

Documents ==
    { DocABCA, DocDiv, DocDivSpan, DocDivClassX, DocDivOpen, DocCommentGt,
      DocEscaped, DocFull, DocNested, DocTokensFull, DocInputDisabled,
      DocInputTypeText, DocTwoAttributes, DocDivData, DocHtmlIncludeData,
      DocVarMalformed, DocTokensFullString,
      DocData, DocSiblings, DocLinesSyntax, DocLinesString,
      DocVariablesFull, DocHtmlx, DocFullAmpersand, DocLongName }

Inputs ==
    { Concat(fs) : fs \in FragSeqs(StringFrags, MaxFrags) }
    \cup { Concat(fs) : fs \in FragSeqs(CdataFrags, MaxFrags) }
    \cup { Concat(fs) : fs \in FragSeqs(TagFrags, MaxFrags) }
    \cup Documents
    \cup SingleCodePoints

(* what may lie in memory after the input buffer / in unused token slots *)
PadAlphabet == {0, CharCode["a"]}
StaleIds == {HTML_TOKEN_GREATERTHAN, HTML_TOKEN_IDENTIFIER, HTML_TOKEN_END}

(***************************************************************************)
(* State                                                                   *)
(***************************************************************************)
VARIABLES
    in_data,    \* the decoded input buffer (in_size = its length)
    pad,        \* memory that follows the buffer: reads at offsets >= in_size
    stale,      \* ids held by the token-table slots at indices >= tokens.count
    tokens,     \* tree->tokens: the stored tokens, count = Len(tokens)
    lexer,      \* struct html_lexer_t
    tree,       \* struct html_tree_t without its token table
    parser,     \* struct html_parser_t
    pc,         \* "lex", "parse", "done" (html_parse returned), "built", "crash"
    rc,         \* return value of html_parse
    diag,       \* lines written to stderr
    step,       \* history: the alternative the last read_node step took
    pushed,     \* history: per recorded node, the stack before and after its push
    builder,    \* html_build: struct html_builder_t and the append_token calls
    utf8,       \* unicode_read_utf8_string: its arguments, locals and buffer
    lookup      \* char_type_check: its arguments, the index it reads, its result

vars == <<in_data, pad, stale, tokens, lexer, tree, parser, pc, rc, diag, step, pushed,
          builder, utf8, lookup>>

in_size == Len(in_data)

(* a read of in_data[i]; past the buffer it reads whatever follows it, and  *)
(* past the modelled memory the access faults                               *)
Mapped(i) == i >= 0 /\ i < in_size + Len(pad)
Mem(i) == IF i < in_size THEN in_data[i + 1] ELSE pad[i - in_size + 1]

(***************************************************************************)
(* unicode.c                                                               *)
(***************************************************************************)
RECURSIVE compare_loop(_, _, _, _)
compare_loop(s1, s2, size, i) ==
    IF i >= size THEN [fault |-> FALSE, diff |-> 0]
    ELSE IF ~Mapped(s1 + i) THEN [fault |-> TRUE, diff |-> 0]
    ELSE LET d == Mem(s1 + i) - s2[i + 1]
         IN IF d # 0 THEN [fault |-> FALSE, diff |-> d]
            ELSE compare_loop(s1, s2, size, i + 1)

unicode_compare_likely_equal(s1, s2, size) == compare_loop(s1, s2, size, 0)

RECURSIVE find_loop(_, _, _, _, _)
find_loop(hay, needle, needle_size, hay_minus_needle, i) ==
    IF ~(i <= hay_minus_needle) THEN [fault |-> FALSE, res |-> -1]
    ELSE IF ~Mapped(hay + i) THEN [fault |-> TRUE, res |-> -1]
    ELSE IF Mem(hay + i) # needle[1]
        THEN find_loop(hay, needle, needle_size, hay_minus_needle, i + 1)
    ELSE LET c == unicode_compare_likely_equal(hay + i, needle, needle_size)
         IN IF c.fault THEN [fault |-> TRUE, res |-> -1]
            ELSE IF c.diff = 0 THEN [fault |-> FALSE, res |-> i]
            ELSE find_loop(hay, needle, needle_size, hay_minus_needle, i + 1)

(* mutant: the scan stops one position early (i < hay_minus_needle) *)
unicode_find_short(hay, needle, hay_size, needle_size) ==
    IF hay_size = 0 \/ needle_size = 0 THEN [fault |-> FALSE, res |-> -1]
    ELSE find_loop(hay, needle, needle_size, ToSizeT(hay_size - needle_size) - 1, 0)

unicode_find(hay, needle, hay_size, needle_size) ==
    IF hay_size = 0 \/ needle_size = 0 THEN [fault |-> FALSE, res |-> -1]
    ELSE find_loop(hay, needle, needle_size, ToSizeT(hay_size - needle_size), 0)

(* a read of p[k] of the byte string: past in_size it reads what follows   *)
(* the mapping, and past the modelled memory the access faults              *)
Utf8Mapped(U, k) == k >= 0 /\ k < Len(U.in_str) + Len(U.after)
Utf8Byte(U, k) ==
    IF k < Len(U.in_str) THEN U.in_str[k + 1] ELSE U.after[k - Len(U.in_str) + 1]

(* __builtin_clz on a nonzero 32-bit value whose low 24 bits are 0, given  *)
(* as its top byte; __builtin_ia32_lzcnt_u16 on a 16-bit value (16 for zero)*)
RECURSIVE builtin_clz(_)
builtin_clz(top) == IF top >= 2 ^ 7 THEN 0 ELSE 1 + builtin_clz(2 * top)

RECURSIVE lzcnt_u16_loop(_)
lzcnt_u16_loop(x) == IF x >= 2 ^ 15 THEN 0 ELSE 1 + lzcnt_u16_loop(2 * x)

builtin_ia32_lzcnt_u16(x) == IF x = 0 THEN 16 ELSE lzcnt_u16_loop(x)

(* cnt of unicode_read_utf8_char: ~ch1 << 8 in 16 bits in the __BMI2__      *)
(* build; in the other build ~ch1 << 24 in 32 bits, whose top byte is       *)
(* 255 - ch1 and whose other bits are 0, and cnt = 0 when it is 0           *)
utf8_cnt(ch1, bmi2) ==
    IF bmi2 THEN builtin_ia32_lzcnt_u16(((2 ^ 16 - 1 - ch1) * 2 ^ 8) % 2 ^ 16)
    ELSE LET lshift_invert == (2 ^ 8 - 1 - ch1) % 2 ^ 8
         IN IF lshift_invert # 0 THEN builtin_clz(lshift_invert) ELSE 0

(* for (i=1; i < cnt; ++i): code = code << 6 | (p[i] & 63), or goto fail *)
RECURSIVE utf8_continuation_loop(_, _, _, _, _)
utf8_continuation_loop(U, p, i, cnt, code) ==
    IF ~(i < cnt) THEN [fault |-> FALSE, fail |-> FALSE, code |-> code]
    ELSE IF ~Utf8Mapped(U, p + i) THEN [fault |-> TRUE, fail |-> FALSE, code |-> code]
    ELSE IF (Utf8Byte(U, p + i) \div 64) * 64 = 128
        THEN utf8_continuation_loop(U, p, i + 1, cnt,
                                    code * 64 + (Utf8Byte(U, p + i) % 64))
    ELSE [fault |-> FALSE, fail |-> TRUE, code |-> code]

(* unicode_read_utf8_char(&p): [fault, code, s], s the position it leaves.  *)
(* ch1 & (255 >> cnt) keeps the low 8 - cnt bits; the shifted lead bits and *)
(* the continuation bits do not overlap, so `|` adds; code stays below 2^26 *)
(* and inside int32_t.  The fail path returns -1 and leaves *s alone.       *)
unicode_read_utf8_char(U, p) ==
    LET ch1 == Utf8Byte(U, p)
        cnt == utf8_cnt(ch1, U.bmi2)
    IN IF cnt = 0 THEN [fault |-> FALSE, code |-> ch1 % 128, s |-> p + 1]
       ELSE IF cnt < 6
           THEN LET r == utf8_continuation_loop(U, p, 1, cnt, 0)
                IN IF r.fault THEN [fault |-> TRUE, code |-> 0, s |-> p]
                   ELSE IF r.fail THEN [fault |-> FALSE, code |-> -1, s |-> p]
                   ELSE [fault |-> FALSE,
                         code |-> (ch1 % 2 ^ (8 - cnt)) * 2 ^ ((cnt - 1) * 6) + r.code,
                         s |-> p + cnt]
       ELSE [fault |-> FALSE, code |-> -1, s |-> p]

(***************************************************************************)
(* html_lexer.c                                                            *)
(* A branch returns [ret, fault, lexer, tokens]: its C return value, whether*)
(* it read unmapped memory, and the lexer and token table it leaves.       *)
(***************************************************************************)
(* mutant: a token that does not fit is dropped without an error *)
add_token_silent(L, T, id, begin, end) ==
    IF Len(T) < HTML_PARSER_MAX_TOKENS
        THEN [lexer |-> L,
              tokens |-> Append(T, [id |-> id, begin |-> begin, end |-> end])]
        ELSE [lexer |-> L, tokens |-> T]

add_token(L, T, id, begin, end) ==
    IF Len(T) < HTML_PARSER_MAX_TOKENS
        THEN [lexer |-> L,
              tokens |-> Append(T, [id |-> id, begin |-> begin, end |-> end])]
        ELSE [lexer |-> [L EXCEPT !.exception_pending = 1,
                                  !.exception_msg = "Not enough space for tokens",
                                  !.exception_location = begin],
              tokens |-> T]

NoToken(L, T) == [ret |-> 0, fault |-> FALSE, lexer |-> L, tokens |-> T]
LexFault(L, T) == [ret |-> 0, fault |-> TRUE, lexer |-> L, tokens |-> T]

(* add_token(...); lexer->current = p; return 1; *)
Emit(L, T, id, begin, end, p) ==
    LET a == add_token(L, T, id, begin, end)
    IN [ret |-> 1, fault |-> FALSE,
        lexer |-> [a.lexer EXCEPT !.current = p], tokens |-> a.tokens]

RECURSIVE scan_class(_, _, _)
(* while (char_type_check(p[0], flags) == want) ++p;  -1 when the scan faults *)
scan_class(p, flags, want) ==
    IF ~Mapped(p) THEN -1
    ELSE IF char_type_check(Mem(p), flags) = want THEN scan_class(p + 1, flags, want)
    ELSE p

(* mutant: the token's begin and end are exchanged *)
read_token_identifier_swapped(L, T) ==
    IF ~char_type_check(Mem(L.current), {CHAR_INFO_IDENTIFIER}) THEN NoToken(L, T)
    ELSE LET p == scan_class(L.current + 1,
                             {CHAR_INFO_IDENTIFIER, CHAR_INFO_NUMBER}, TRUE)
         IN IF p = -1 THEN LexFault(L, T)
            ELSE Emit(L, T, HTML_TOKEN_IDENTIFIER, p, L.current, p)

read_token_identifier(L, T) ==
    IF ~char_type_check(Mem(L.current), {CHAR_INFO_IDENTIFIER}) THEN NoToken(L, T)
    ELSE LET p == scan_class(L.current + 1,
                             {CHAR_INFO_IDENTIFIER, CHAR_INFO_NUMBER}, TRUE)
         IN IF p = -1 THEN LexFault(L, T)
            ELSE Emit(L, T, HTML_TOKEN_IDENTIFIER, L.current, p, p)

(* mutant: digits do not count as text *)
read_token_text_no_digits(L, T) ==
    LET p == scan_class(L.current,
                 {CHAR_INFO_NOT_TEXT, CHAR_INFO_WHITESPACE, CHAR_INFO_IDENTIFIER,
                  CHAR_INFO_NUMBER}, FALSE)
    IN IF p = -1 THEN LexFault(L, T)
       ELSE IF p - L.current # 0 THEN Emit(L, T, HTML_TOKEN_TEXT, L.current, p, p)
       ELSE NoToken(L, T)

read_token_text(L, T) ==
    LET p == scan_class(L.current,
                 {CHAR_INFO_NOT_TEXT, CHAR_INFO_WHITESPACE, CHAR_INFO_IDENTIFIER}, FALSE)
    IN IF p = -1 THEN LexFault(L, T)
       ELSE IF p - L.current # 0 THEN Emit(L, T, HTML_TOKEN_TEXT, L.current, p, p)
       ELSE NoToken(L, T)

(* mutant: the scan position is left at the begin of the token *)
read_token_whitespace_stuck(L, T) ==
    LET p == scan_class(L.current, {CHAR_INFO_WHITESPACE}, TRUE)
    IN IF p = -1 THEN LexFault(L, T)
       ELSE IF p - L.current # 0
           THEN Emit(L, T, HTML_TOKEN_WHITESPACE, L.current, p, L.current)
       ELSE NoToken(L, T)

read_token_whitespace(L, T) ==
    LET p == scan_class(L.current, {CHAR_INFO_WHITESPACE}, TRUE)
    IN IF p = -1 THEN LexFault(L, T)
       ELSE IF p - L.current # 0 THEN Emit(L, T, HTML_TOKEN_WHITESPACE, L.current, p, p)
       ELSE NoToken(L, T)

read_token_char(L, T, ch, token_id) ==
    IF Mem(L.current) = ch
        THEN Emit(L, T, token_id, L.current, L.current + 1, L.current + 1)
        ELSE NoToken(L, T)

read_token_keyword(L, T, keyword_id, token_id) ==
    LET size == keyword_size[keyword_id + 1]
        c == unicode_compare_likely_equal(L.current, keyword_data[keyword_id + 1], size)
    IN IF c.fault THEN LexFault(L, T)
       ELSE IF c.diff = 0
           THEN Emit(L, T, token_id, L.current, L.current + size, L.current + size)
       ELSE NoToken(L, T)

RECURSIVE string_loop_keep_quote(_, _, _, _)
string_loop_keep_quote(L, T, quote, p) ==
    IF ~(p < L.end)
        THEN [ret |-> 1, fault |-> FALSE,
              lexer |-> [L EXCEPT !.exception_pending = 1,
                                  !.exception_msg = "Unterminated string literal",
                                  !.exception_location = L.current],
              tokens |-> T]
    ELSE IF Mem(p) = CharCode["\\"] THEN string_loop_keep_quote(L, T, quote, p + 2)
    ELSE IF Mem(p) = quote THEN Emit(L, T, HTML_TOKEN_STRING, L.current + 1, p, p)
    ELSE string_loop_keep_quote(L, T, quote, p + 1)

(* mutant: the closing quote is left at the scan position (current = p) *)
read_token_string_keep_quote(L, T) ==
    LET quote == Mem(L.current)
    IN IF quote # CharCode["\""] /\ quote # CharCode["'"] THEN NoToken(L, T)
       ELSE string_loop_keep_quote(L, T, quote, L.current + 1)

RECURSIVE string_loop(_, _, _, _)
string_loop(L, T, quote, p) ==
    IF ~(p < L.end)
        THEN [ret |-> 1, fault |-> FALSE,
              lexer |-> [L EXCEPT !.exception_pending = 1,
                                  !.exception_msg = "Unterminated string literal",
                                  !.exception_location = L.current],
              tokens |-> T]
    ELSE IF Mem(p) = CharCode["\\"] THEN string_loop(L, T, quote, p + 2)
    ELSE IF Mem(p) = quote THEN Emit(L, T, HTML_TOKEN_STRING, L.current + 1, p, p + 1)
    ELSE string_loop(L, T, quote, p + 1)

(* mutant: only the double quote opens a string literal *)
read_token_string_double_only(L, T) ==
    LET quote == Mem(L.current)
    IN IF quote # CharCode["\""] THEN NoToken(L, T)
       ELSE string_loop(L, T, quote, L.current + 1)

read_token_string(L, T) ==
    LET quote == Mem(L.current)
    IN IF quote # CharCode["\""] /\ quote # CharCode["'"] THEN NoToken(L, T)
       ELSE string_loop(L, T, quote, L.current + 1)

(* mutant: the end marker is skipped without being part of any token *)
read_token_cdata_skip_end(L, T, keyword_begin, keyword_end, token_id) ==
    LET p == L.current
        c == unicode_compare_likely_equal(
                 p, keyword_data[keyword_begin + 1], keyword_size[keyword_begin + 1])
    IN IF c.fault THEN LexFault(L, T)
       ELSE IF c.diff # 0 THEN NoToken(L, T)
       ELSE LET q == p + keyword_size[keyword_begin + 1]
                f == unicode_find(q, keyword_data[keyword_end + 1],
                                  ToSizeT(L.end - q), keyword_size[keyword_end + 1])
            IN IF f.fault THEN LexFault(L, T)
               ELSE IF f.res > -1
                   THEN Emit(L, T, token_id, L.current, q + f.res,
                             q + f.res + keyword_size[keyword_end + 1])
               ELSE NoToken(L, T)

read_token_cdata(L, T, keyword_begin, keyword_end, token_id) ==
    LET p == L.current
        c == unicode_compare_likely_equal(
                 p, keyword_data[keyword_begin + 1], keyword_size[keyword_begin + 1])
    IN IF c.fault THEN LexFault(L, T)
       ELSE IF c.diff # 0 THEN NoToken(L, T)
       ELSE LET q == p + keyword_size[keyword_begin + 1]
                f == unicode_find(q, keyword_data[keyword_end + 1],
                                  ToSizeT(L.end - q), keyword_size[keyword_end + 1])
            IN IF f.fault THEN LexFault(L, T)
               ELSE IF f.res > -1
                   THEN Emit(L, T, token_id, L.current, q + f.res, q + f.res)
               ELSE NoToken(L, T)

(* the || chain of read_token, in order *)
read_token_branches ==
    << [f |-> "cdata", kb |-> KEYWORD_COMMENT_START, ke |-> KEYWORD_COMMENT_END,
        id |-> HTML_TOKEN_COMMENT],
       [f |-> "cdata", kb |-> KEYWORD_SCRIPT_START, ke |-> KEYWORD_SCRIPT_END,
        id |-> HTML_TOKEN_SCRIPT],
       [f |-> "cdata", kb |-> KEYWORD_STYLE_START, ke |-> KEYWORD_STYLE_END,
        id |-> HTML_TOKEN_STYLE],
       [f |-> "string"],
       [f |-> "char", ch |-> CharCode[">"], id |-> HTML_TOKEN_GREATERTHAN],
       [f |-> "char", ch |-> CharCode["<"], id |-> HTML_TOKEN_LESSTHAN],
       [f |-> "char", ch |-> CharCode["'"], id |-> HTML_TOKEN_SINGLEQUOTE],
       [f |-> "char", ch |-> CharCode["\""], id |-> HTML_TOKEN_DOUBLEQUOTE],
       [f |-> "char", ch |-> CharCode["&"], id |-> HTML_TOKEN_AMPERSAND],
       [f |-> "char", ch |-> CharCode["!"], id |-> HTML_TOKEN_EXCLAMATIONMARK],
       [f |-> "char", ch |-> CharCode["="], id |-> HTML_TOKEN_EQUAL],
       [f |-> "char", ch |-> CharCode["-"], id |-> HTML_TOKEN_HYPHEN],
       [f |-> "char", ch |-> 58, id |-> HTML_TOKEN_COLON],
       [f |-> "char", ch |-> CharCode["{"], id |-> HTML_TOKEN_OPENBRACE],
       [f |-> "char", ch |-> CharCode["}"], id |-> HTML_TOKEN_CLOSEBRACE],
       [f |-> "char", ch |-> 40, id |-> HTML_TOKEN_OPENPAREN],
       [f |-> "char", ch |-> 41, id |-> HTML_TOKEN_CLOSEPAREN],
       [f |-> "char", ch |-> 59, id |-> HTML_TOKEN_SEMICOLON],
       [f |-> "char", ch |-> 42, id |-> HTML_TOKEN_ASTERISK],
       [f |-> "char", ch |-> 35, id |-> HTML_TOKEN_HASH],
       [f |-> "char", ch |-> 44, id |-> HTML_TOKEN_COMMA],
       [f |-> "char", ch |-> CharCode["/"], id |-> HTML_TOKEN_SLASH],
       [f |-> "keyword", kw |-> KEYWORD_HTML, id |-> HTML_TOKEN_HTML],
       [f |-> "keyword", kw |-> KEYWORD_DATA, id |-> HTML_TOKEN_DATA],
       [f |-> "keyword", kw |-> KEYWORD_INCLUDE, id |-> HTML_TOKEN_INCLUDE],
       [f |-> "identifier"],
       [f |-> "whitespace"],
       [f |-> "text"] >>

read_token_branch(L, T, b) ==
    CASE b.f = "cdata" -> read_token_cdata(L, T, b.kb, b.ke, b.id)
      [] b.f = "string" -> read_token_string(L, T)
      [] b.f = "char" -> read_token_char(L, T, b.ch, b.id)
      [] b.f = "keyword" -> read_token_keyword(L, T, b.kw, b.id)
      [] b.f = "identifier" -> read_token_identifier(L, T)
      [] b.f = "whitespace" -> read_token_whitespace(L, T)
      [] b.f = "text" -> read_token_text(L, T)

RECURSIVE read_token_from(_, _, _)
read_token_from(L, T, i) ==
    LET next(r) == IF r.fault \/ r.ret # 0 \/ i = Len(read_token_branches) THEN r
                   ELSE read_token_from(r.lexer, r.tokens, i + 1)
    IN next(read_token_branch(L, T, read_token_branches[i]))

read_token(L, T) == read_token_from(L, T, 1)

(* html_lex, the error report: 0-based line and column of offset loc *)
(* mutant: the column is not reset at a newline *)
RECURSIVE line_column_no_reset(_, _, _, _)
line_column_no_reset(p, loc, line_num, column_num) ==
    IF ~(p < loc) \/ ~Mapped(p) THEN [line |-> line_num + 1, column |-> column_num + 1]
    ELSE IF Mem(p) # CharCode["\n"]
        THEN line_column_no_reset(p + 1, loc, line_num, column_num + 1)
    ELSE line_column_no_reset(p + 1, loc, line_num + 1, column_num + 1)

RECURSIVE line_column(_, _, _, _)
line_column(p, loc, line_num, column_num) ==
    IF ~(p < loc) \/ ~Mapped(p) THEN [line |-> line_num + 1, column |-> column_num + 1]
    ELSE IF Mem(p) # CharCode["\n"] THEN line_column(p + 1, loc, line_num, column_num + 1)
    ELSE line_column(p + 1, loc, line_num + 1, 0)

report(who, msg, loc) ==
    LET lc == line_column(0, loc, 0, 0)
    IN [who |-> who, msg |-> msg, line |-> lc.line, column |-> lc.column]

(***************************************************************************)
(* html_parser.c                                                           *)
(* tree->tokens.id[p] is read without comparing p to tokens.count: a slot  *)
(* at or past count holds whatever the caller's table held (stale), and a  *)
(* slot past the modelled table faults.                                    *)
(***************************************************************************)
Readable(p) == p >= 0 /\ p < Len(tokens) + Len(stale)
TokenId(p) == IF p < Len(tokens) THEN tokens[p + 1].id ELSE stale[p - Len(tokens) + 1]

(* an EXPECT_ macro as data: the token ids it accepts and whether it is a   *)
(* _0N loop; expect runs macros in order from p and yields k = "ok" (all    *)
(* passed, go on at p), "return0" (a macro returned 0) or "fault"           *)
EXPECT_TOKEN_1_1(token) == [ids |-> {token}, loop |-> FALSE]
EXPECT_TOKEN_2_1(token1, token2) == [ids |-> {token1, token2}, loop |-> FALSE]
EXPECT_TOKEN_1_0N(token) == [ids |-> {token}, loop |-> TRUE]
EXPECT_TOKEN_3_0N(token1, token2, token3) == [ids |-> {token1, token2, token3}, loop |-> TRUE]

RECURSIVE expect(_, _)
expect(p, macros) ==
    IF macros = << >> THEN [k |-> "ok", p |-> p]
    ELSE IF ~Readable(p) THEN [k |-> "fault", p |-> p]
    ELSE IF TokenId(p) \in Head(macros).ids
        THEN expect(p + 1, IF Head(macros).loop THEN macros ELSE Tail(macros))
    ELSE IF Head(macros).loop THEN expect(p, Tail(macros))
    ELSE [k |-> "return0", p |-> p]

(* what an alternative returns: its C return value, whether it faulted, the *)
(* parser and tree it leaves, and the tag-name token it handled (0: none)   *)
Alt(ret, P, TR, tag) == [ret |-> ret, fault |-> FALSE, parser |-> P, tree |-> TR, tag |-> tag]
AltFault(P, TR) == [ret |-> 0, fault |-> TRUE, parser |-> P, tree |-> TR, tag |-> 0]

RECURSIVE pop_scan(_, _, _)
pop_scan(P, tag_name, i) ==
    IF ~(i > 0) THEN P
    ELSE IF TokenId(P.node_stack[i]) = TokenId(tag_name)
        THEN [P EXCEPT !.node_stack_size = i]
    ELSE pop_scan(P, tag_name, i - 1)

(* mutant: the scan runs from index 1 up, so the lowest match wins *)
RECURSIVE pop_scan_up(_, _, _)
pop_scan_up(P, tag_name, i) ==
    IF ~(i < P.node_stack_size) THEN P
    ELSE IF TokenId(P.node_stack[i]) = TokenId(tag_name)
        THEN [P EXCEPT !.node_stack_size = i]
    ELSE pop_scan_up(P, tag_name, i + 1)

pop_node_lowest_match(P, tag_name) == pop_scan_up(P, tag_name, 1)

pop_node(P, tag_name) == pop_scan(P, tag_name, P.node_stack_size - 1)

(* mutant: the tag name is put on the stack twice *)
push_node_twice(P, TR, tag_name) ==
    LET i == TR.node_count
    IN IF i < HTML_PARSER_MAX_NODES
        THEN [tree |-> [TR EXCEPT !.node_parent[i] = P.node_stack[P.node_stack_size - 1],
                                  !.node_tag_name[i] = tag_name,
                                  !.node_count = i + 1],
              parser |-> [P EXCEPT !.node_stack[P.node_stack_size] = tag_name,
                                   !.node_stack[P.node_stack_size + 1] = tag_name,
                                   !.node_stack_size = P.node_stack_size + 2]]
        ELSE [tree |-> TR,
              parser |-> [P EXCEPT !.exception_pending = 1,
                                   !.exception_msg = "Not enough space for tree",
                                   !.exception_location = tag_name]]

(* mutant: the parent recorded is the bottom of the stack, not its top *)
push_node_parent_bottom(P, TR, tag_name) ==
    LET i == TR.node_count
    IN IF i < HTML_PARSER_MAX_NODES
        THEN [tree |-> [TR EXCEPT !.node_parent[i] = P.node_stack[0],
                                  !.node_tag_name[i] = tag_name,
                                  !.node_count = i + 1],
              parser |-> [P EXCEPT !.node_stack[P.node_stack_size] = tag_name,
                                   !.node_stack_size = P.node_stack_size + 1]]
        ELSE [tree |-> TR,
              parser |-> [P EXCEPT !.exception_pending = 1,
                                   !.exception_msg = "Not enough space for tree",
                                   !.exception_location = tag_name]]

push_node(P, TR, tag_name) ==
    LET i == TR.node_count
    IN IF i < HTML_PARSER_MAX_NODES
        THEN [tree |-> [TR EXCEPT !.node_parent[i] = P.node_stack[P.node_stack_size - 1],
                                  !.node_tag_name[i] = tag_name,
                                  !.node_count = i + 1],
              parser |-> [P EXCEPT !.node_stack[P.node_stack_size] = tag_name,
                                   !.node_stack_size = P.node_stack_size + 1]]
        ELSE [tree |-> TR,
              parser |-> [P EXCEPT !.exception_pending = 1,
                                   !.exception_msg = "Not enough space for tree",
                                   !.exception_location = tag_name]]

(* the while loop of read_node_open_tag_attributes; attrib_name is p at the *)
(* head of every iteration                                                  *)
RECURSIVE attributes_loop(_, _, _, _)
attributes_loop(TR, node, attrib_idx, p) ==
    IF ~Readable(p) THEN [k |-> "fault", p |-> p, tree |-> TR, attrib_idx |-> attrib_idx]
    ELSE IF TokenId(p) # HTML_TOKEN_IDENTIFIER
        THEN [k |-> "ok", p |-> p, tree |-> TR, attrib_idx |-> attrib_idx]
    ELSE LET r1 == expect(p + 1, <<EXPECT_TOKEN_1_0N(HTML_TOKEN_WHITESPACE)>>)
             has_value == TokenId(r1.p) = HTML_TOKEN_EQUAL
             r2 == expect(r1.p + 1, <<EXPECT_TOKEN_1_0N(HTML_TOKEN_WHITESPACE)>>)
             r3 == expect(r2.p, <<EXPECT_TOKEN_1_1(HTML_TOKEN_STRING),
                                  EXPECT_TOKEN_1_0N(HTML_TOKEN_WHITESPACE)>>)
             r == IF r1.k # "ok" THEN r1
                  ELSE IF ~has_value THEN r1
                  ELSE IF r2.k # "ok" THEN r2
                  ELSE r3
             attrib_value == IF has_value THEN r2.p ELSE 0
         IN IF r.k # "ok"
                THEN [k |-> r.k, p |-> r.p, tree |-> TR, attrib_idx |-> attrib_idx]
            ELSE IF ~(attrib_idx < HTML_PARSER_MAX_ATTRIBUTES)
                THEN [k |-> "fault", p |-> r.p, tree |-> TR, attrib_idx |-> attrib_idx]
            ELSE attributes_loop(
                     [TR EXCEPT !.attrib_parent[attrib_idx] = node,
                                !.attrib_name[attrib_idx] = p,
                                !.attrib_value[attrib_idx] = attrib_value],
                     node, attrib_idx + 1, r.p)

(* mutant: the attribute entries are written but attrib_count is not stored *)
read_node_open_tag_attributes_no_count(P, TR, node, p) ==
    LET close(l, r) ==
            IF r.k = "fault" THEN AltFault(P, l.tree)
            ELSE IF r.k = "ok" THEN Alt(1, [P EXCEPT !.current = r.p], l.tree, node)
            ELSE Alt(0, P, l.tree, 0)
        after(l) ==
            close(l, IF l.k # "ok" THEN [k |-> l.k, p |-> l.p]
                     ELSE expect(l.p, <<EXPECT_TOKEN_1_0N(HTML_TOKEN_WHITESPACE),
                                        EXPECT_TOKEN_1_1(HTML_TOKEN_GREATERTHAN)>>))
    IN after(attributes_loop(TR, node, TR.attrib_count, p))

read_node_open_tag_attributes(P, TR, node, p) ==
    LET close(l, r) ==
            IF r.k = "fault" THEN AltFault(P, l.tree)
            ELSE IF r.k = "ok"
                THEN Alt(1, [P EXCEPT !.current = r.p],
                         [l.tree EXCEPT !.attrib_count = l.attrib_idx], node)
            ELSE Alt(0, P, l.tree, 0)
        after(l) ==
            close(l, IF l.k # "ok" THEN [k |-> l.k, p |-> l.p]
                     ELSE expect(l.p, <<EXPECT_TOKEN_1_0N(HTML_TOKEN_WHITESPACE),
                                        EXPECT_TOKEN_1_1(HTML_TOKEN_GREATERTHAN)>>))
    IN after(attributes_loop(TR, node, TR.attrib_count, p))

read_node_open_tag(P, TR) ==
    LET r1 == expect(P.current, <<EXPECT_TOKEN_1_1(HTML_TOKEN_LESSTHAN)>>)
        tag_name == r1.p
        r3 == IF r1.k # "ok" THEN r1
              ELSE expect(tag_name, <<EXPECT_TOKEN_2_1(HTML_TOKEN_IDENTIFIER, HTML_TOKEN_HTML),
                                      EXPECT_TOKEN_1_0N(HTML_TOKEN_WHITESPACE)>>)
        undo(a) ==
            IF a.fault \/ a.ret # 0 THEN a
            ELSE Alt(0, [a.parser EXCEPT !.node_stack_size = ToSizeT(@ - 1)],
                     [a.tree EXCEPT !.node_count = ToSizeT(@ - 1)], 0)
        attributes(pn) ==
            undo(read_node_open_tag_attributes(pn.parser, pn.tree, tag_name, r3.p))
    IN IF r3.k = "fault" THEN AltFault(P, TR)
       ELSE IF r3.k # "ok" THEN Alt(0, P, TR, 0)
       ELSE attributes(push_node(P, TR, tag_name))

(* mutant: a successful close tag drops the last node of the table *)
read_node_close_tag_drops_node(P, TR) ==
    LET r2 == expect(P.current, <<EXPECT_TOKEN_1_1(HTML_TOKEN_LESSTHAN),
                                  EXPECT_TOKEN_1_1(HTML_TOKEN_SLASH)>>)
        tag_name == r2.p
        r5 == IF r2.k # "ok" THEN r2
              ELSE expect(tag_name, <<EXPECT_TOKEN_2_1(HTML_TOKEN_IDENTIFIER, HTML_TOKEN_HTML),
                                      EXPECT_TOKEN_1_0N(HTML_TOKEN_WHITESPACE),
                                      EXPECT_TOKEN_1_1(HTML_TOKEN_GREATERTHAN)>>)
    IN IF r5.k = "fault" THEN AltFault(P, TR)
       ELSE IF r5.k # "ok" THEN Alt(0, P, TR, 0)
       ELSE Alt(1, [pop_node(P, tag_name) EXCEPT !.current = r5.p],
                [TR EXCEPT !.node_count = IF @ > 0 THEN @ - 1 ELSE 0], tag_name)

read_node_close_tag(P, TR) ==
    LET r2 == expect(P.current, <<EXPECT_TOKEN_1_1(HTML_TOKEN_LESSTHAN),
                                  EXPECT_TOKEN_1_1(HTML_TOKEN_SLASH)>>)
        tag_name == r2.p
        r5 == IF r2.k # "ok" THEN r2
              ELSE expect(tag_name, <<EXPECT_TOKEN_2_1(HTML_TOKEN_IDENTIFIER, HTML_TOKEN_HTML),
                                      EXPECT_TOKEN_1_0N(HTML_TOKEN_WHITESPACE),
                                      EXPECT_TOKEN_1_1(HTML_TOKEN_GREATERTHAN)>>)
    IN IF r5.k = "fault" THEN AltFault(P, TR)
       ELSE IF r5.k # "ok" THEN Alt(0, P, TR, 0)
       ELSE Alt(1, [pop_node(P, tag_name) EXCEPT !.current = r5.p], TR, tag_name)

(* mutant: the variable's stack entry is not popped *)
read_node_variable_no_pop(P, TR) ==
    LET r3 == expect(P.current, <<EXPECT_TOKEN_1_1(HTML_TOKEN_OPENBRACE),
                                  EXPECT_TOKEN_1_1(HTML_TOKEN_OPENBRACE),
                                  EXPECT_TOKEN_1_0N(HTML_TOKEN_WHITESPACE)>>)
        var_name == r3.p
        r7 == IF r3.k # "ok" THEN r3
              ELSE expect(var_name, <<EXPECT_TOKEN_1_1(HTML_TOKEN_IDENTIFIER),
                                      EXPECT_TOKEN_1_0N(HTML_TOKEN_WHITESPACE),
                                      EXPECT_TOKEN_1_1(HTML_TOKEN_CLOSEBRACE),
                                      EXPECT_TOKEN_1_1(HTML_TOKEN_CLOSEBRACE)>>)
        keep(pn) == Alt(1, [pn.parser EXCEPT !.current = r7.p], pn.tree, var_name)
    IN IF r7.k = "fault" THEN AltFault(P, TR)
       ELSE IF r7.k # "ok" THEN Alt(0, P, TR, 0)
       ELSE keep(push_node(P, TR, var_name))

read_node_variable(P, TR) ==
    LET r3 == expect(P.current, <<EXPECT_TOKEN_1_1(HTML_TOKEN_OPENBRACE),
                                  EXPECT_TOKEN_1_1(HTML_TOKEN_OPENBRACE),
                                  EXPECT_TOKEN_1_0N(HTML_TOKEN_WHITESPACE)>>)
        var_name == r3.p
        r7 == IF r3.k # "ok" THEN r3
              ELSE expect(var_name, <<EXPECT_TOKEN_1_1(HTML_TOKEN_IDENTIFIER),
                                      EXPECT_TOKEN_1_0N(HTML_TOKEN_WHITESPACE),
                                      EXPECT_TOKEN_1_1(HTML_TOKEN_CLOSEBRACE),
                                      EXPECT_TOKEN_1_1(HTML_TOKEN_CLOSEBRACE)>>)
        pop(pn) == Alt(1, [pop_node(pn.parser, var_name) EXCEPT !.current = r7.p],
                       pn.tree, var_name)
    IN IF r7.k = "fault" THEN AltFault(P, TR)
       ELSE IF r7.k # "ok" THEN Alt(0, P, TR, 0)
       ELSE pop(push_node(P, TR, var_name))

(* mutant: text matches even where it consumes no token *)
read_node_text_empty(P, TR) ==
    LET r == expect(P.current, <<EXPECT_TOKEN_3_0N(HTML_TOKEN_TEXT, HTML_TOKEN_WHITESPACE,
                                                   HTML_TOKEN_IDENTIFIER)>>)
    IN IF r.k = "fault" THEN AltFault(P, TR)
       ELSE Alt(1, [P EXCEPT !.current = r.p], TR, 0)

read_node_text(P, TR) ==
    LET r == expect(P.current, <<EXPECT_TOKEN_3_0N(HTML_TOKEN_TEXT, HTML_TOKEN_WHITESPACE,
                                                   HTML_TOKEN_IDENTIFIER)>>)
    IN IF r.k = "fault" THEN AltFault(P, TR)
       ELSE IF P.current # r.p THEN Alt(1, [P EXCEPT !.current = r.p], TR, 0)
       ELSE Alt(0, P, TR, 0)

(* mutant: the last alternative takes one token of any kind *)
read_node_whitespace_any(P, TR) ==
    Alt(1, [P EXCEPT !.current = P.current + 1], TR, 0)

read_node_whitespace(P, TR) ==
    LET r == expect(P.current, <<EXPECT_TOKEN_1_1(HTML_TOKEN_WHITESPACE),
                                 EXPECT_TOKEN_1_0N(HTML_TOKEN_WHITESPACE)>>)
    IN IF r.k = "fault" THEN AltFault(P, TR)
       ELSE IF r.k # "ok" THEN Alt(0, P, TR, 0)
       ELSE Alt(1, [P EXCEPT !.current = r.p], TR, 0)

(* the || chain of read_node, in order; alt names the alternative that     *)
(* ended it ("none": all returned 0)                                        *)
(* mutant: whitespace is tried before text *)
read_node_alternatives_whitespace_first ==
    <<"open_tag", "close_tag", "variable", "whitespace", "text">>

read_node_alternatives == <<"open_tag", "close_tag", "variable", "text", "whitespace">>

read_node_alternative(P, TR, alt) ==
    CASE alt = "open_tag" -> read_node_open_tag(P, TR)
      [] alt = "close_tag" -> read_node_close_tag(P, TR)
      [] alt = "variable" -> read_node_variable(P, TR)
      [] alt = "text" -> read_node_text(P, TR)
      [] alt = "whitespace" -> read_node_whitespace(P, TR)

RECURSIVE read_node_from(_, _, _)
read_node_from(P, TR, i) ==
    LET next(a) ==
            IF a.fault \/ a.ret # 0 THEN a @@ [alt |-> read_node_alternatives[i]]
            ELSE IF i = Len(read_node_alternatives) THEN a @@ [alt |-> "none"]
            ELSE read_node_from(a.parser, a.tree, i + 1)
    IN next(read_node_alternative(P, TR, read_node_alternatives[i]))

read_node(P, TR) == read_node_from(P, TR, 1)

(***************************************************************************)
(* html_build                                                              *)
(***************************************************************************)
(* struct html_builder_t builder = {0}; output is the first `current` cells *)
(* of *out_data, appended the token_idx and intended kind of every          *)
(* append_token call, stacks the local node_stack after each push, fault an *)
(* access outside mapped memory                                             *)
NoBuilder == [output |-> << >>, current |-> 0, max_size |-> 0,
              appended |-> << >>, stacks |-> << >>, fault |-> FALSE]

(* the ids html_build looks up in token_idx *)
LookedUpIds == {HTML_TOKEN_LESSTHAN, HTML_TOKEN_SLASH, HTML_TOKEN_GREATERTHAN}

(* what the entries of the local array token_idx that the first loop does   *)
(* not assign may hold: the index of any stored token, of the unused slot   *)
(* after them (whose begin and end are equal in a zeroed table), or an      *)
(* index whose begin and end are not addresses that can be copied from      *)
UnassignedIds(TR) ==
    IF TR.node_count = 0 THEN {}
    ELSE {id \in LookedUpIds : \A k \in 1..Len(tokens) : tokens[k].id # id}
Uninitialised(TR) == [UnassignedIds(TR) -> 0..Len(tokens) + 1]

(* token_idx after `for (idx=0; idx < tokens->count; ++idx)`: the last      *)
(* token of each id                                                         *)
(* mutant: the first token of each id is kept *)
token_idx_first(uninit, id) ==
    IF id \in DOMAIN uninit THEN uninit[id]
    ELSE (CHOOSE k \in 1..Len(tokens) :
              /\ tokens[k].id = id
              /\ \A j \in 1..k - 1 : tokens[j].id # id) - 1

token_idx(uninit, id) ==
    IF id \in DOMAIN uninit THEN uninit[id]
    ELSE (CHOOSE k \in 1..Len(tokens) :
              /\ tokens[k].id = id
              /\ \A j \in k + 1..Len(tokens) : tokens[j].id # id) - 1

append_token(B, idx, want) ==
    LET size == IF idx < Len(tokens) THEN tokens[idx + 1].end - tokens[idx + 1].begin
                ELSE 0
        begin == IF idx < Len(tokens) THEN tokens[idx + 1].begin ELSE 0
        call == [token_idx |-> idx, want |-> want]
    IN IF B.fault THEN B
       ELSE IF idx > Len(tokens) \/ B.current + size > HTML_PARSER_MAX_SIZE
           THEN [B EXCEPT !.fault = TRUE, !.appended = Append(@, call)]
       ELSE [B EXCEPT !.output = @ \o [i \in 1..size |-> Mem(begin + i - 1)],
                      !.current = @ + size,
                      !.max_size = @ - size,
                      !.appended = Append(@, call)]

(* the four append_token calls that write a closing tag *)
append_close_tag(B, uninit, tag_name) ==
    append_token(
        append_token(
            append_token(
                append_token(B, token_idx(uninit, HTML_TOKEN_LESSTHAN), {HTML_TOKEN_LESSTHAN}),
                token_idx(uninit, HTML_TOKEN_SLASH), {HTML_TOKEN_SLASH}),
            tag_name, {HTML_TOKEN_IDENTIFIER, HTML_TOKEN_HTML}),
        token_idx(uninit, HTML_TOKEN_GREATERTHAN), {HTML_TOKEN_GREATERTHAN})

(* the three append_token calls that write an opening tag *)
append_open_tag(B, uninit, tag_name) ==
    append_token(
        append_token(
            append_token(B, token_idx(uninit, HTML_TOKEN_LESSTHAN), {HTML_TOKEN_LESSTHAN}),
            tag_name, {HTML_TOKEN_IDENTIFIER, HTML_TOKEN_HTML}),
        token_idx(uninit, HTML_TOKEN_GREATERTHAN), {HTML_TOKEN_GREATERTHAN})

(* `while (node_stack_size > 0 && parent != node_stack[node_stack_size-1])`; *)
(* node_stack is the sequence of the entries below node_stack_size          *)
(* mutant: no closing tag is written before an opening tag *)
build_close_loop_none(B, uninit, node_stack, parent) ==
    [builder |-> B, node_stack |-> node_stack]

RECURSIVE build_close_loop(_, _, _, _)
build_close_loop(B, uninit, node_stack, parent) ==
    IF Len(node_stack) > 0 /\ parent # node_stack[Len(node_stack)]
        THEN build_close_loop(append_close_tag(B, uninit, node_stack[Len(node_stack)]),
                              uninit, SubSeq(node_stack, 1, Len(node_stack) - 1), parent)
        ELSE [builder |-> B, node_stack |-> node_stack]

(* `for (; node_stack_size > 0; --node_stack_size)` *)
RECURSIVE build_final_loop(_, _, _)
build_final_loop(B, uninit, node_stack) ==
    IF Len(node_stack) > 0
        THEN build_final_loop(append_close_tag(B, uninit, node_stack[Len(node_stack)]),
                              uninit, SubSeq(node_stack, 1, Len(node_stack) - 1))
        ELSE B

(* `for (i=0; i < tree->node_count; ++i)` from node i on, then the final    *)
(* loop; a push onto a full node_stack writes outside the array             *)
RECURSIVE build_node_loop(_, _, _, _, _)
build_node_loop(B, uninit, TR, node_stack, i) ==
    LET push(r) ==
            IF Len(r.node_stack) >= HTML_PARSER_MAX_STACK_SIZE
                THEN [r.builder EXCEPT !.fault = TRUE]
                ELSE build_node_loop(
                         [append_open_tag(r.builder, uninit, TR.node_tag_name[i])
                              EXCEPT !.stacks =
                                  Append(@, Append(r.node_stack, TR.node_tag_name[i]))],
                         uninit, TR, Append(r.node_stack, TR.node_tag_name[i]), i + 1)
    IN IF ~(i < TR.node_count) THEN build_final_loop(B, uninit, node_stack)
       ELSE push(build_close_loop(B, uninit, node_stack, TR.node_parent[i]))

html_build(TR, uninit) ==
    build_node_loop([NoBuilder EXCEPT !.max_size = HTML_PARSER_MAX_SIZE],
                    uninit, TR, << >>, 0)

(***************************************************************************)
(* html_parse as a state machine                                           *)
(***************************************************************************)
(* the number of cells past the input buffer that stored tokens span *)
TokensOverrun ==
    IF \E k \in 1..Len(tokens) : tokens[k].end > in_size
        THEN (CHOOSE e \in {tokens[k].end : k \in 1..Len(tokens)} :
                  \A k \in 1..Len(tokens) : tokens[k].end <= e) - in_size
        ELSE 0

NoStep == [alt |-> "start", tag |-> 0, stack_size |-> 0, node_count |-> 0]

(* no unicode_read_utf8_string call and no char_type_check call under way *)
NoUtf8 == [in_str |-> << >>, after |-> << >>, bmi2 |-> FALSE, slack |-> 0,
           p |-> 0, i |-> 0, out_str |-> << >>, code |-> 0, pc |-> "off"]
NoLookup == [ch |-> 0, flags |-> {}, index |-> {}, ret |-> FALSE, pc |-> "off"]

Init ==
    /\ in_data \in Inputs
    /\ pad \in [1..PadLen -> PadAlphabet]
    /\ stale = << >>
    /\ tokens = << >>
    /\ lexer = [current |-> 0, end |-> Len(in_data), exception_pending |-> 0,
                exception_msg |-> "", exception_location |-> 0]
    /\ tree = [node_parent |-> [i \in 0..HTML_PARSER_MAX_NODES - 1 |-> 0],
               node_tag_name |-> [i \in 0..HTML_PARSER_MAX_NODES - 1 |-> 0],
               attrib_parent |-> [i \in 0..HTML_PARSER_MAX_ATTRIBUTES - 1 |-> 0],
               attrib_name |-> [i \in 0..HTML_PARSER_MAX_ATTRIBUTES - 1 |-> 0],
               attrib_value |-> [i \in 0..HTML_PARSER_MAX_ATTRIBUTES - 1 |-> 0],
               attrib_count |-> 0,
               node_count |-> 0]
    /\ parser = [current |-> 0,
                 node_stack |-> [i \in 0..HTML_PARSER_MAX_STACK_SIZE - 1 |-> 0],
                 node_stack_size |-> 0,
                 exception_pending |-> 0, exception_msg |-> "", exception_location |-> 0]
    /\ pc = "lex"
    /\ rc = 0
    /\ diag = << >>
    /\ step = NoStep
    /\ pushed = << >>
    /\ builder = NoBuilder
    /\ utf8 = NoUtf8
    /\ lookup = NoLookup

(* html_lex: one iteration of `while (lexer.current < lexer.end)` *)
LexLoop ==
    /\ pc = "lex"
    /\ lexer.exception_pending = 0
    /\ lexer.current < lexer.end
    /\ \E r \in {read_token(lexer, tokens)} :
          /\ pc' = IF r.fault THEN "crash" ELSE "lex"
          /\ tokens' = r.tokens
          /\ lexer' = IF r.fault \/ r.ret # 0 THEN r.lexer
                      ELSE [r.lexer EXCEPT !.exception_pending = 1,
                                           !.exception_msg = "Unrecognized token",
                                           !.exception_location = r.lexer.current]
    /\ UNCHANGED <<in_data, pad, stale, tree, parser, rc, diag, step, pushed, builder, utf8, lookup>>

(* html_lex after its loop, and html_parse up to its own loop: the report   *)
(* and rc = -1, or the parser set up with node_stack_size = 1.  The parser  *)
(* is the first to read unused token slots, so what they hold is fixed      *)
(* here; from here on the memory past the input buffer is read only where   *)
(* a stored token spans it.                                                 *)
LexReturn ==
    /\ pc = "lex"
    /\ ~(lexer.exception_pending = 0 /\ lexer.current < lexer.end)
    /\ IF lexer.exception_pending # 0
           THEN /\ diag' = Append(diag, report("html_lex", lexer.exception_msg,
                                               lexer.exception_location))
                /\ rc' = -1
                /\ pc' = "done"
                /\ UNCHANGED <<parser, stale>>
           ELSE /\ parser' = [parser EXCEPT !.node_stack_size = 1]
                /\ stale' \in [1..StalePad -> StaleIds]
                /\ pc' = "parse"
                /\ UNCHANGED <<rc, diag>>
    /\ pad' = [i \in 1..TokensOverrun |-> pad[i]]
    /\ UNCHANGED <<in_data, tokens, lexer, tree, step, pushed, builder, utf8, lookup>>

(* html_parse: one iteration of `while (parser.current < tree->tokens.count)` *)
ParseLoop ==
    /\ pc = "parse"
    /\ parser.exception_pending = 0
    /\ parser.current < Len(tokens)
    /\ \E r \in {read_node(parser, tree)} :
          /\ pc' = IF r.fault THEN "crash" ELSE "parse"
          /\ tree' = r.tree
          /\ parser' = IF r.fault \/ r.ret # 0 THEN r.parser
                       ELSE [r.parser EXCEPT !.exception_pending = 1,
                                             !.exception_msg = "Invalid syntax",
                                             !.exception_location = r.parser.current]
          /\ step' = [alt |-> r.alt, tag |-> r.tag,
                      stack_size |-> parser.node_stack_size,
                      node_count |-> tree.node_count]
          /\ pushed' = IF ~r.fault /\ r.alt \in {"open_tag", "variable"}
                             /\ tree.node_count < HTML_PARSER_MAX_NODES
                           THEN Append(pushed,
                                    [alt |-> r.alt,
                                     top |-> IF parser.node_stack_size = 1 THEN 0
                                             ELSE parser.node_stack[parser.node_stack_size - 1],
                                     stack |-> [k \in 1..parser.node_stack_size - 1 |->
                                                    parser.node_stack[k]] \o <<r.tag>>])
                           ELSE pushed
    /\ UNCHANGED <<in_data, pad, stale, tokens, lexer, rc, diag, builder, utf8, lookup>>

(* html_parse after its loop: the report and the return value *)
ParseReturn ==
    /\ pc = "parse"
    /\ ~(parser.exception_pending = 0 /\ parser.current < Len(tokens))
    /\ IF parser.exception_pending # 0
           THEN /\ diag' = Append(diag,
                        report("html_parse", parser.exception_msg,
                               IF parser.exception_location < Len(tokens)
                                   THEN tokens[parser.exception_location + 1].begin
                                   ELSE 0))
                /\ rc' = -1
           ELSE UNCHANGED <<rc, diag>>
    /\ pc' = "done"
    /\ UNCHANGED <<in_data, pad, stale, tokens, lexer, tree, parser, step, pushed,
                   builder, utf8, lookup>>

(* html_build on the tree of a html_parse that returned 0 *)
Build ==
    /\ pc = "done"
    /\ rc = 0
    /\ \E uninit \in Uninitialised(tree) :
          \E b \in {html_build(tree, uninit)} :
              /\ builder' = b
              /\ pc' = IF b.fault THEN "crash" ELSE "built"
    /\ UNCHANGED <<in_data, pad, stale, tokens, lexer, tree, parser, rc, diag, step, pushed,
                   utf8, lookup>>

Next == LexLoop \/ LexReturn \/ ParseLoop \/ ParseReturn \/ Build

Spec == Init /\ [][Next]_vars

(***************************************************************************)
(* unicode_read_utf8_string as a state machine                             *)
(***************************************************************************)
MaxBytes == 2
AfterLen == 1
MaxSlack == 1

(* one byte of each class: ASCII, continuation, leads announcing 2..7       *)
(* bytes, and 0xFF                                                          *)
Utf8Bytes == {65, 128, 169, 195, 226, 240, 248, 252, 254, 255}

RECURSIVE ByteSeqs(_)
ByteSeqs(n) ==
    IF n = 0 THEN {<< >>}
    ELSE ByteSeqs(n - 1) \cup
         {Append(b, c) : b \in {x \in ByteSeqs(n - 1) : Len(x) = n - 1}, c \in Utf8Bytes}

(* html_lex, html_parse and html_build are not running *)
PipelineOff ==
    /\ in_data = << >>
    /\ pad = << >>
    /\ stale = << >>
    /\ tokens = << >>
    /\ lexer = << >>
    /\ tree = << >>
    /\ parser = << >>
    /\ pc = "off"
    /\ rc = 0
    /\ diag = << >>
    /\ step = NoStep
    /\ pushed = << >>
    /\ builder = NoBuilder

(* unicode_read_utf8_string entered: the buffer of in_size code points is   *)
(* allocated (out_size is 0 at the call in web-cc.c); `after` is what       *)
(* follows the byte string in memory, `slack` the cells that follow the     *)
(* buffer and can be written without a fault; either build may be running   *)
InitUtf8 ==
    /\ PipelineOff
    /\ lookup = NoLookup
    /\ \E s \in ByteSeqs(MaxBytes), a \in [1..AfterLen -> {0, 128}],
          b \in BOOLEAN, k \in 0..MaxSlack :
          utf8 = [NoUtf8 EXCEPT !.in_str = s, !.after = a, !.bmi2 = b, !.slack = k,
                                !.pc = "loop"]

(* one iteration of `for (...; p < q; ++i) out_str[i] = read_char(&p)` *)
Utf8Loop ==
    /\ utf8.pc = "loop"
    /\ utf8.p < Len(utf8.in_str)
    /\ \E r \in {unicode_read_utf8_char(utf8, utf8.p)} :
          utf8' = IF r.fault \/ utf8.i >= Len(utf8.in_str) + utf8.slack
                      THEN [utf8 EXCEPT !.pc = "crash"]
                      ELSE [utf8 EXCEPT !.p = r.s, !.i = @ + 1, !.code = r.code,
                                        !.out_str = Append(@, r.code)]
    /\ UNCHANGED <<in_data, pad, stale, tokens, lexer, tree, parser, pc, rc, diag, step,
                   pushed, builder, lookup>>

(* out_size = i; return 0 *)
Utf8Return ==
    /\ utf8.pc = "loop"
    /\ ~(utf8.p < Len(utf8.in_str))
    /\ utf8' = [utf8 EXCEPT !.pc = "returned"]
    /\ UNCHANGED <<in_data, pad, stale, tokens, lexer, tree, parser, pc, rc, diag, step,
                   pushed, builder, lookup>>

NextUtf8 == Utf8Loop \/ Utf8Return

SpecUtf8 == InitUtf8 /\ [][NextUtf8]_vars

(***************************************************************************)
(* char_type_check as a state machine                                      *)
(***************************************************************************)
(* the code points a call is made with: around the two ends of the table,   *)
(* the decoder's -1 included, and the largest code point                    *)
CodePoints == -2..129 \cup {1114111}

(* the flag masks the lexer passes *)
FlagMasks ==
    { {CHAR_INFO_IDENTIFIER}, {CHAR_INFO_IDENTIFIER, CHAR_INFO_NUMBER},
      {CHAR_INFO_WHITESPACE},
      {CHAR_INFO_NOT_TEXT, CHAR_INFO_WHITESPACE, CHAR_INFO_IDENTIFIER} }

InitCharType ==
    /\ PipelineOff
    /\ utf8 = NoUtf8
    /\ \E c \in CodePoints, m \in FlagMasks :
          lookup = [NoLookup EXCEPT !.ch = c, !.flags = m, !.pc = "call"]

(* one call: a read inside the table gives the entry's answer, a read       *)
(* outside it whatever the byte found there gives                           *)
CharTypeCheck ==
    /\ lookup.pc = "call"
    /\ \E ret \in IF char_info_index(lookup.ch) \subseteq DOMAIN char_info
                     THEN {char_type_check(lookup.ch, lookup.flags)}
                     ELSE BOOLEAN :
          lookup' = [lookup EXCEPT !.index = char_info_index(lookup.ch), !.ret = ret,
                                   !.pc = "ret"]
    /\ UNCHANGED <<in_data, pad, stale, tokens, lexer, tree, parser, pc, rc, diag, step,
                   pushed, builder, utf8>>

NextCharType == CharTypeCheck

SpecCharType == InitCharType /\ [][NextCharType]_vars

(***************************************************************************)
(* Properties                                                              *)
(***************************************************************************)
Min(S) == CHOOSE x \in S : \A y \in S : x <= y
Max(S) == CHOOSE x \in S : \A y \in S : x >= y

(* the code point at input offset o *)
At(o) == in_data[o + 1]

(* kw occurs in the input at offset o, wholly before the end of the input *)
StartsAt(o, kw) ==
    /\ o >= 0
    /\ o + Len(kw) <= in_size
    /\ \A j \in 1..Len(kw) : At(o + j - 1) = kw[j]

(* the first offset at or after from where kw occurs, -1 when there is none *)
FirstAt(from, kw) ==
    LET S == {o \in from..in_size : StartsAt(o, kw)}
    IN IF S = {} THEN -1 ELSE Min(S)

CommentStart == keyword_data[KEYWORD_COMMENT_START + 1]
CommentEnd == keyword_data[KEYWORD_COMMENT_END + 1]

(* the CDATA blocks: start marker, end marker, token id *)
CdataBlocks ==
    { [start |-> keyword_data[KEYWORD_COMMENT_START + 1],
       end |-> keyword_data[KEYWORD_COMMENT_END + 1], id |-> HTML_TOKEN_COMMENT],
      [start |-> keyword_data[KEYWORD_SCRIPT_START + 1],
       end |-> keyword_data[KEYWORD_SCRIPT_END + 1], id |-> HTML_TOKEN_SCRIPT],
      [start |-> keyword_data[KEYWORD_STYLE_START + 1],
       end |-> keyword_data[KEYWORD_STYLE_END + 1], id |-> HTML_TOKEN_STYLE] }

(* html_lex has returned 0 *)
LexSucceeded == pc \in {"parse", "done"} /\ lexer.exception_pending = 0

(* html_lex is about to call read_token at lexer.current *)
AtScanPosition == pc = "lex" /\ lexer.exception_pending = 0 /\ lexer.current < lexer.end

(* the tokens whose span [begin, end) holds input offset o *)
SpansHolding(o) == {k \in 1..Len(tokens) : tokens[k].begin <= o /\ o < tokens[k].end}

(* o is the opening or the closing quote of a string literal token *)
IsStringQuote(o) ==
    \E k \in 1..Len(tokens) :
        tokens[k].id = HTML_TOKEN_STRING /\ (o = tokens[k].begin - 1 \/ o = tokens[k].end)

(* C1 as stated: whenever html_lex succeeds, every input offset lies in     *)
(* exactly one token span and the spans follow each other without a gap.    *)
C1_SpansTileInput ==
    LexSucceeded =>
        /\ \A o \in 0..in_size - 1 : Cardinality(SpansHolding(o)) = 1
        /\ \A k \in 1..Len(tokens) - 1 : tokens[k].end = tokens[k + 1].begin

(* C1 amended: whenever html_lex succeeds, the token spans are in input     *)
(* order without overlap, and every input offset lies in exactly one span,  *)
(* except the opening and the closing quote of each string literal, which   *)
(* lie in no span.                                                          *)
C1_SpansTileInputExceptQuotes ==
    LexSucceeded =>
        /\ \A o \in 0..in_size - 1 :
               Cardinality(SpansHolding(o)) = IF IsStringQuote(o) THEN 0 ELSE 1
        /\ \A k \in 1..Len(tokens) - 1 : tokens[k].end <= tokens[k + 1].begin

(* a successful lex of an input holding both a CDATA block and a string *)
C1_Witness ==
    /\ LexSucceeded
    /\ \E k \in 1..Len(tokens) : tokens[k].id = HTML_TOKEN_STRING
    /\ \E k \in 1..Len(tokens) : tokens[k].id = HTML_TOKEN_COMMENT

(* C2: parsing <a><b><c></a> ends without a fatal error and with only the  *)
(* sentinel root on the nesting stack.                                      *)
C2_MismatchedCloseUnwindsToRoot ==
    (pc = "done" /\ in_data = DocABCA) => (rc = 0 /\ parser.node_stack_size = 1)

(* html_parse has failed with the diagnostic msg *)
ParseFailedWith(msg) ==
    /\ rc = -1
    /\ diag # << >>
    /\ diag[Len(diag)].who = "html_parse"
    /\ diag[Len(diag)].msg = msg

(* C3: an input that ends inside an open tag, before its `>`, makes         *)
(* html_parse fail with 'Invalid syntax' and leaves node_count and          *)
(* attrib_count as they were before the attempt.                            *)
C3_UnclosedOpenTagFails ==
    (pc = "done" /\ in_data \in {DocDivOpen, DocDivClassX} /\ lexer.current = in_size) =>
        /\ ParseFailedWith("Invalid syntax")
        /\ tree.node_count = 0
        /\ tree.attrib_count = 0

(* C4: whenever read_node_open_tag returns 0, node_count, node_stack_size,  *)
(* attrib_count and parser.current are what they were on entry.             *)
C4_OpenTagRollbackExact ==
    (pc = "parse" /\ parser.exception_pending = 0 /\ parser.current < Len(tokens)) =>
        \A a \in {read_node_open_tag(parser, tree)} :
            (~a.fault /\ a.ret = 0) =>
                /\ a.tree.node_count = tree.node_count
                /\ a.parser.node_stack_size = parser.node_stack_size
                /\ a.tree.attrib_count = tree.attrib_count
                /\ a.parser.current = parser.current

(* the CDATA blocks whose start marker is at the scan position and whose    *)
(* end marker occurs nowhere after it                                       *)
UnterminatedBlocksHere ==
    {b \in CdataBlocks : /\ StartsAt(lexer.current, b.start)
                         /\ FirstAt(lexer.current + Len(b.start), b.end) = -1}

(* C5: a step of html_lex at an unterminated CDATA start marker emits no    *)
(* token and raises the lexer's fatal error.                                *)
C5_Step ==
    (AtScanPosition /\ UnterminatedBlocksHere # {} /\ pc' # "crash") =>
        /\ tokens' = tokens
        /\ lexer'.exception_pending # 0

C5_UnterminatedCdataIsFatal == [][C5_Step]_vars

(* C6: a step of html_lex that emits a CDATA token gives it the span from   *)
(* the start marker to just before the first end marker and leaves the scan *)
(* position just past that end marker.                                      *)
C6_Step ==
    \A b \in CdataBlocks :
        (/\ AtScanPosition
         /\ Len(tokens') = Len(tokens) + 1
         /\ tokens'[Len(tokens')].id = b.id) =>
            /\ tokens'[Len(tokens')].begin = lexer.current
            /\ tokens'[Len(tokens')].end = FirstAt(lexer.current + Len(b.start), b.end)
            /\ lexer'.current = tokens'[Len(tokens')].end + Len(b.end)

C6_CdataEndMarkerConsumed == [][C6_Step]_vars

(* the first `-->` after the `<!--` at the scan position, -1 when none *)
CommentEndHere == FirstAt(lexer.current + Len(CommentStart), CommentEnd)

(* C7: a step of html_lex at a `<!--` that has a later `-->` emits exactly  *)
(* one token, a COMMENT from the `<!--` to the first `-->` after it, and    *)
(* scanning goes on at that `-->`; no step emits a token that begins before *)
(* its scan position, so no other token begins inside the block.            *)
C7_Step ==
    /\ (/\ AtScanPosition
        /\ Len(tokens) < HTML_PARSER_MAX_TOKENS
        /\ StartsAt(lexer.current, CommentStart)
        /\ CommentEndHere # -1) =>
           /\ tokens' = Append(tokens, [id |-> HTML_TOKEN_COMMENT,
                                        begin |-> lexer.current,
                                        end |-> CommentEndHere])
           /\ lexer'.current = CommentEndHere
           /\ lexer'.exception_pending = 0
           /\ pc' = "lex"
    /\ AtScanPosition =>
           /\ Len(tokens') <= Len(tokens) + 1
           /\ \A k \in Len(tokens) + 1..Len(tokens') : tokens'[k].begin >= lexer.current
           /\ pc' = "lex" => lexer'.current >= lexer.current

RECURSIVE Escaped(_, _)
Escaped(i, k) == k - 1 > i /\ At(k - 1) = CharCode["\\"] /\ ~Escaped(i, k - 1)

(* the offsets that can close the string opened at offset i *)
ClosingQuotes(i) == {j \in i + 1..in_size - 1 : At(j) = At(i) /\ ~Escaped(i, j)}

(* C8: a step of html_lex at an opening quote at offset i emits one STRING  *)
(* token for [i+1, j) and goes on at j+1, j the first unescaped occurrence  *)
(* of the same quote after i; when there is none it emits no token and      *)
(* raises 'Unterminated string literal' at i, and html_lex then returns -1. *)
C8_Step ==
    /\ (/\ AtScanPosition
        /\ Len(tokens) < HTML_PARSER_MAX_TOKENS
        /\ At(lexer.current) \in {CharCode["\""], CharCode["'"]}) =>
           IF ClosingQuotes(lexer.current) # {}
               THEN /\ tokens' = Append(tokens, [id |-> HTML_TOKEN_STRING,
                                                 begin |-> lexer.current + 1,
                                                 end |-> Min(ClosingQuotes(lexer.current))])
                    /\ lexer'.current = Min(ClosingQuotes(lexer.current)) + 1
                    /\ lexer'.exception_pending = 0
                    /\ pc' = "lex"
               ELSE /\ tokens' = tokens
                    /\ lexer'.exception_pending # 0
                    /\ lexer'.exception_msg = "Unterminated string literal"
                    /\ lexer'.exception_location = lexer.current
                    /\ pc' = "lex"
    /\ (pc = "lex" /\ lexer.exception_pending # 0) =>
           /\ pc' = "done"
           /\ rc' = -1
           /\ tokens' = tokens
           /\ diag' = <<report("html_lex", lexer.exception_msg, lexer.exception_location)>>

C8_WitnessUnterminated ==
    /\ pc = "done"
    /\ rc = -1
    /\ diag # << >>
    /\ diag[1].msg = "Unterminated string literal"

(* the stack indices from 1 up whose tag-name token has the kind of token cand *)
KindMatches(cand) ==
    {i \in 1..parser.node_stack_size - 1 : tokens[parser.node_stack[i] + 1].id = tokens[cand + 1].id}

(* C9: a close tag whose name is token cand sets node_stack_size to the     *)
(* highest index in 1..size-1 whose stacked token has cand's kind, leaves   *)
(* it unchanged when there is none, and changes no stack entry: the new     *)
(* stack is a prefix of the old one that keeps the sentinel at index 0.     *)
C9_Step ==
    (pc = "parse" /\ pc' = "parse" /\ step'.alt = "close_tag") =>
        /\ parser'.node_stack_size =
               IF KindMatches(step'.tag) = {} THEN parser.node_stack_size
               ELSE Max(KindMatches(step'.tag))
        /\ parser'.node_stack_size >= 1
        /\ parser'.node_stack_size <= parser.node_stack_size
        /\ parser'.node_stack = parser.node_stack

C9_CloseTagPopsToHighestMatch == [][C9_Step]_vars

(* a close tag has cut a stack that held two entries of its kind down to    *)
(* the upper of the two                                                     *)
C9_Witness ==
    /\ pc = "parse"
    /\ step.alt = "close_tag"
    /\ step.stack_size = 3
    /\ parser.node_stack_size = 2
    /\ tokens[parser.node_stack[1] + 1].id = tokens[step.tag + 1].id

(* C10: after a successful html_parse every node made by an open tag has as *)
(* parent the tag-name token that was on top of the nesting stack when it   *)
(* was pushed, 0 when no tag was open; <div></div> gives one node with      *)
(* parent 0 and <div><span></span></div> two, the second a child of the     *)
(* first.                                                                   *)
C10_ParentIsInnermostOpenTag ==
    (pc = "done" /\ rc = 0) =>
        /\ Len(pushed) = tree.node_count
        /\ \A n \in 0..tree.node_count - 1 :
               pushed[n + 1].alt = "open_tag" => tree.node_parent[n] = pushed[n + 1].top
        /\ in_data = DocDiv => (tree.node_count = 1 /\ tree.node_parent[0] = 0)
        /\ in_data = DocDivSpan =>
               /\ tree.node_count = 2
               /\ tree.node_parent[0] = 0
               /\ tree.node_parent[1] = tree.node_tag_name[0]
               /\ tree.node_tag_name[0] = 1

(* <div><span></span></div> has been parsed successfully *)
C10_Witness ==
    /\ pc = "done"
    /\ rc = 0
    /\ in_data = DocDivSpan
    /\ tree.node_count = 2
    /\ tree.node_parent[1] # 0

(* the first token index at or after p that is not whitespace *)
NextNonWhitespace(p) ==
    Min({q \in p..Len(tokens) : q = Len(tokens) \/ tokens[q + 1].id # HTML_TOKEN_WHITESPACE})

(* the identifier tokens between the tag name at token t and the `>` at     *)
(* token gt, in source order                                                *)
AttributeNames(t, gt) ==
    LET S == {q \in t + 1..gt - 1 : tokens[q + 1].id = HTML_TOKEN_IDENTIFIER}
        Rank(q) == Cardinality({r \in S : r < q})
    IN [k \in 1..Cardinality(S) |-> CHOOSE q \in S : Rank(q) = k - 1]

(* the value of the attribute named by token n: the token after its `=`,    *)
(* 0 when it has no `=`                                                     *)
AttributeValue(n) ==
    IF NextNonWhitespace(n + 1) < Len(tokens)
       /\ tokens[NextNonWhitespace(n + 1) + 1].id = HTML_TOKEN_EQUAL
        THEN NextNonWhitespace(NextNonWhitespace(n + 1) + 1)
        ELSE 0

(* the text of token k *)
TokenText(k) == [i \in 1..tokens[k + 1].end - tokens[k + 1].begin |-> At(tokens[k + 1].begin + i - 1)]

(* C11: an open tag that parses successfully, its `>` being a token of the  *)
(* input, appends one attribute entry per attribute in source order, with   *)
(* owner the tag-name token, name the attribute's identifier token, and     *)
(* value 0 without `=` and else the STRING token after the `=`, whose span  *)
(* is the text between the quotes.                                          *)
C11_Step ==
    (pc = "parse" /\ pc' = "parse" /\ step'.alt = "open_tag"
     /\ parser'.current <= Len(tokens)) =>
        \A names \in {AttributeNames(step'.tag, parser'.current - 1)} :
            /\ tree'.attrib_count = tree.attrib_count + Len(names)
            /\ \A i \in 0..tree.attrib_count - 1 :
                   /\ tree'.attrib_parent[i] = tree.attrib_parent[i]
                   /\ tree'.attrib_name[i] = tree.attrib_name[i]
                   /\ tree'.attrib_value[i] = tree.attrib_value[i]
            /\ \A k \in 1..Len(names) :
                   /\ tree'.attrib_parent[tree.attrib_count + k - 1] = step'.tag
                   /\ tree'.attrib_name[tree.attrib_count + k - 1] = names[k]
                   /\ tree'.attrib_value[tree.attrib_count + k - 1] = AttributeValue(names[k])
                   /\ AttributeValue(names[k]) # 0 =>
                          \A v \in {tokens[AttributeValue(names[k]) + 1]} :
                              /\ v.id = HTML_TOKEN_STRING
                              /\ At(v.begin - 1) \in {CharCode["\""], CharCode["'"]}
                              /\ At(v.end) = At(v.begin - 1)

C11_Examples ==
    /\ (pc = "done" /\ in_data = DocInputDisabled) =>
           /\ rc = 0
           /\ tree.attrib_count = 1
           /\ tree.attrib_parent[0] = 1 /\ tree.attrib_name[0] = 3 /\ tree.attrib_value[0] = 0
    /\ (pc = "done" /\ in_data = DocInputTypeText) =>
           /\ rc = 0
           /\ tree.attrib_count = 1
           /\ tree.attrib_parent[0] = 1 /\ tree.attrib_name[0] = 3 /\ tree.attrib_value[0] = 5
           /\ TokenText(5) = unicode_read_ascii_string(<<"t","e","x","t">>)

C11_AttributesRecorded == [][C11_Step /\ C11_Examples']_vars

(* a tag with three attributes, the second with a value, has been parsed *)
C11_Witness ==
    /\ pc = "done"
    /\ rc = 0
    /\ in_data = DocTwoAttributes
    /\ tree.attrib_count = 3
    /\ tree.attrib_value[0] = 0
    /\ tree.attrib_value[1] # 0

(* C12: a tag carrying the documented `include` and `data` attributes is    *)
(* accepted: html_parse succeeds, one node is recorded for the tag and one  *)
(* attribute entry for each of the two attributes.                          *)
C12_TemplateAttributesAccepted ==
    /\ (pc = "done" /\ in_data = DocDivData) =>
           (rc = 0 /\ tree.node_count = 1 /\ tree.attrib_count = 1)
    /\ (pc = "done" /\ in_data = DocHtmlIncludeData) =>
           (rc = 0 /\ tree.node_count = 1 /\ tree.attrib_count = 2)

(* the token sequence from token p on is `{{`, optional whitespace, an      *)
(* identifier, optional whitespace, `}}`, all of it tokens of the input     *)
VariableAt(p) ==
    /\ p + 1 < Len(tokens)
    /\ tokens[p + 1].id = HTML_TOKEN_OPENBRACE
    /\ tokens[p + 2].id = HTML_TOKEN_OPENBRACE
    /\ \A n \in {NextNonWhitespace(p + 2)} :
           /\ n < Len(tokens)
           /\ tokens[n + 1].id = HTML_TOKEN_IDENTIFIER
           /\ \A c \in {NextNonWhitespace(n + 1)} :
                  /\ c + 1 < Len(tokens)
                  /\ tokens[c + 1].id = HTML_TOKEN_CLOSEBRACE
                  /\ tokens[c + 2].id = HTML_TOKEN_CLOSEBRACE

VariableName(p) == NextNonWhitespace(p + 2)
VariableEnd(p) == NextNonWhitespace(VariableName(p) + 1) + 2

(* the stack entries below node_stack_size *)
StackOf(P) == [i \in 0..P.node_stack_size - 1 |-> P.node_stack[i]]

(* html_parse is about to call read_node at parser.current *)
AtParsePosition ==
    pc = "parse" /\ parser.exception_pending = 0 /\ parser.current < Len(tokens)

(* C13: a step of html_parse at a well-formed {{ name }}, the node table    *)
(* having room, appends one node named by the identifier token with the     *)
(* stack top as parent, goes on after the `}}` and leaves the nesting stack *)
(* as it was; where read_node_variable returns 0 it has changed nothing.    *)
C13_Step ==
    /\ (/\ AtParsePosition
        /\ VariableAt(parser.current)
        /\ tree.node_count < HTML_PARSER_MAX_NODES) =>
           /\ pc' = "parse"
           /\ step'.alt = "variable"
           /\ parser'.exception_pending = 0
           /\ parser'.current = VariableEnd(parser.current)
           /\ tree'.node_count = tree.node_count + 1
           /\ tree'.node_tag_name[tree.node_count] = VariableName(parser.current)
           /\ tree'.node_parent[tree.node_count] = parser.node_stack[parser.node_stack_size - 1]
           /\ \A n \in 0..tree.node_count - 1 :
                  /\ tree'.node_tag_name[n] = tree.node_tag_name[n]
                  /\ tree'.node_parent[n] = tree.node_parent[n]
           /\ tree'.attrib_count = tree.attrib_count
           /\ StackOf(parser') = StackOf(parser)
    /\ AtParsePosition =>
           \A a \in {read_node_variable(parser, tree)} :
               /\ (a.ret # 0 /\ ~a.fault) => VariableAt(parser.current)
               /\ (a.ret = 0 /\ ~a.fault) => (a.parser = parser /\ a.tree = tree)

OpenTagPrefixAt(p) ==
    /\ p + 1 < Len(tokens)
    /\ tokens[p + 1].id = HTML_TOKEN_LESSTHAN
    /\ tokens[p + 2].id \in {HTML_TOKEN_IDENTIFIER, HTML_TOKEN_HTML}

(* C14: a step of html_parse that calls push_node for an open tag while the *)
(* node table is full raises 'Not enough space for tree' at the tag-name    *)
(* token and leaves node_count at HTML_PARSER_MAX_NODES, and html_parse     *)
(* then returns -1 with that diagnostic.                                    *)
C14_Step ==
    /\ (/\ AtParsePosition
        /\ tree.node_count = HTML_PARSER_MAX_NODES
        /\ OpenTagPrefixAt(parser.current)
        /\ pc' # "crash") =>
           /\ parser'.exception_pending # 0
           /\ parser'.exception_msg = "Not enough space for tree"
           /\ parser'.exception_location = parser.current + 1
           /\ tree'.node_count = HTML_PARSER_MAX_NODES
    /\ (pc = "parse" /\ parser.exception_pending # 0) =>
           /\ pc' = "done"
           /\ rc' = -1
           /\ diag'[Len(diag')].msg = parser.exception_msg

C14_NodeTableFullIsReported == [][C14_Step]_vars

(* the token read_token emits at the scan position when the table has room, *)
(* << >> when it emits none                                                 *)
TokenHere == read_token(lexer, << >>).tokens

(* C15: the token table never holds more than HTML_PARSER_MAX_TOKENS        *)
(* tokens; a step of html_lex that has a token to emit while the table is   *)
(* full leaves the stored tokens unchanged and raises 'Not enough space for *)
(* tokens' at that token's begin offset, and html_lex then returns -1 with  *)
(* that diagnostic.                                                         *)
C15_Step ==
    /\ Len(tokens) <= HTML_PARSER_MAX_TOKENS
    /\ Len(tokens') <= HTML_PARSER_MAX_TOKENS
    /\ (/\ AtScanPosition
        /\ Len(tokens) = HTML_PARSER_MAX_TOKENS
        /\ pc' # "crash"
        /\ TokenHere # << >>) =>
           /\ tokens' = tokens
           /\ lexer'.exception_pending # 0
           /\ lexer'.exception_msg = "Not enough space for tokens"
           /\ lexer'.exception_location = TokenHere[1].begin
    /\ (pc = "lex" /\ lexer.exception_pending # 0) =>
           /\ pc' = "done"
           /\ rc' = -1
           /\ tokens' = tokens
           /\ Len(diag') = 1
           /\ diag'[1].who = "html_lex"
           /\ diag'[1].msg = lexer.exception_msg

C15_TokenTableFullIsFatal == [][C15_Step]_vars

(* html_lex has failed on a string literal that did not fit in the table *)
C15_Witness ==
    /\ pc = "done"
    /\ rc = -1
    /\ Len(tokens) = HTML_PARSER_MAX_TOKENS
    /\ diag # << >>
    /\ diag[1].msg = "Not enough space for tokens"
    /\ lexer.exception_location = HTML_PARSER_MAX_TOKENS + 1

(* the input is a well-formed nesting skeleton: only open tags <name> and   *)
(* close tags </name>, every close tag naming the innermost open tag, every *)
(* tag closed; a name is a letter followed by letters and digits            *)
IsLetter(ch) == ch \in 65..90 \/ ch \in 97..122
IsDigit(ch) == ch \in 48..57

NameEnd(o) ==
    IF o < in_size /\ IsLetter(At(o))
        THEN Min({e \in o + 1..in_size :
                      e = in_size \/ ~(IsLetter(At(e)) \/ IsDigit(At(e)))})
        ELSE o

NameAt(o, e) == [i \in 1..e - o |-> At(o + i - 1)]

RECURSIVE SkeletonFrom(_, _)
SkeletonFrom(o, open) ==
    LET close(e) ==
            /\ e > o + 2 /\ e < in_size /\ At(e) = CharCode[">"]
            /\ open # << >>
            /\ NameAt(o + 2, e) = open[Len(open)]
            /\ SkeletonFrom(e + 1, SubSeq(open, 1, Len(open) - 1))
        opening(e) ==
            /\ e > o + 1 /\ e < in_size /\ At(e) = CharCode[">"]
            /\ SkeletonFrom(e + 1, Append(open, NameAt(o + 1, e)))
    IN IF o >= in_size THEN open = << >>
       ELSE IF At(o) # CharCode["<"] THEN FALSE
       ELSE IF o + 1 < in_size /\ At(o + 1) = CharCode["/"] THEN close(NameEnd(o + 2))
       ELSE opening(NameEnd(o + 1))

IsSkeleton == SkeletonFrom(0, << >>)

(* C16: for an input that is a well-formed nesting skeleton html_parse      *)
(* returns 0 and html_build then writes the input's own sequence of open    *)
(* and close tags.                                                          *)
C16_SkeletonRoundTrip ==
    (IsSkeleton /\ pc \in {"done", "built", "crash"}) =>
        /\ rc = 0
        /\ pc # "crash"
        /\ pc = "built" => builder.output = in_data

(* the round trip on the skeletons html_parse accepts *)
SkeletonRoundTripWhenParsed ==
    (IsSkeleton /\ (pc = "built" \/ builder.fault)) =>
        /\ pc = "built"
        /\ builder.output = in_data
        /\ builder.current = in_size

(* html_build has written a skeleton of two nested nodes *)
SkeletonRoundTripWitness ==
    /\ pc = "built"
    /\ IsSkeleton
    /\ tree.node_count = 2
    /\ tree.node_parent[1] = tree.node_tag_name[0]
    /\ builder.output = in_data

(* C17: every append_token call of html_build passes the index of a stored  *)
(* token of the kind it is meant to write (`<`, `/`, `>`, a tag name), for  *)
(* every tree of a successful html_parse; html_build never accesses memory  *)
(* outside the token table and the output array; and for a tree without     *)
(* nodes it calls append_token never and yields out_size = 0.  Stated for   *)
(* the runs in which html_lex and html_parse stayed inside the input and    *)
(* the stored tokens.                                                       *)
C17_BuildUsesStoredTokens ==
    (TokensOverrun = 0 /\ lexer.current = in_size /\ parser.current = Len(tokens)) =>
    /\ \A n \in 1..Len(builder.appended) :
          /\ builder.appended[n].token_idx < Len(tokens)
          /\ tokens[builder.appended[n].token_idx + 1].id \in builder.appended[n].want
    /\ ~builder.fault
    /\ (pc = "built" /\ tree.node_count = 0) =>
          /\ builder.appended = << >>
          /\ builder.current = 0

(* html_build on a tree without nodes *)
BuildEmptyTreeHolds ==
    ((pc = "built" \/ builder.fault) /\ tree.node_count = 0) =>
        /\ pc = "built"
        /\ builder.appended = << >>
        /\ builder.current = 0

(* html_build on the trees of inputs that hold `<`, `/` and `>` tokens *)
BuildWithAllKindsStored ==
    ((pc = "built" \/ builder.fault) /\ UnassignedIds(tree) = {}) =>
        /\ pc = "built"
        /\ \A n \in 1..Len(builder.appended) :
              /\ builder.appended[n].token_idx < Len(tokens)
              /\ tokens[builder.appended[n].token_idx + 1].id \in builder.appended[n].want

(* the diagnostic html_lex / html_parse print for the pending exception *)
LexDiagnostic ==
    report("html_lex", lexer.exception_msg, lexer.exception_location)
ParseDiagnostic ==
    report("html_parse", parser.exception_msg,
           tokens[parser.exception_location + 1].begin)

(* a failing run prints one diagnostic, html_lex stores no token once it    *)
(* has raised an error, a failure of html_lex is returned by html_parse     *)
(* with the parser and the tree untouched, and nothing runs after a failure *)
HaltsWithOneDiagnostic ==
    /\ Len(diag') <= 1
    /\ (pc' = "done" /\ rc' = -1) => Len(diag') = 1
    /\ (pc' = "done" /\ rc' = 0) => diag' = << >>
    /\ lexer.exception_pending # 0 => (tokens' = tokens /\ lexer' = lexer)
    /\ lexer'.exception_pending # 0 => tokens' = tokens
    /\ (pc = "lex" /\ lexer.exception_pending # 0) =>
           /\ pc' = "done"
           /\ rc' = -1
           /\ diag' = <<LexDiagnostic>>
           /\ parser' = parser /\ parser.current = 0 /\ parser.node_stack_size = 0
           /\ tree' = tree /\ tree.node_count = 0 /\ tree.attrib_count = 0
    /\ (pc = "parse" /\ parser.exception_pending # 0) =>
           /\ pc' = "done"
           /\ rc' = -1
           /\ diag' = <<ParseDiagnostic>>
           /\ tree' = tree
    /\ ~(pc = "done" /\ rc = -1)

(* the first exception raised while read_node runs is the one html_parse    *)
(* goes on to report                                                        *)
FirstExceptionKept ==
    (AtParsePosition /\ pc' # "crash") =>
        \A r \in {read_node(parser, tree)} :
            r.parser.exception_pending # 0 =>
                /\ parser'.exception_pending # 0
                /\ parser'.exception_msg = r.parser.exception_msg
                /\ parser'.exception_location = r.parser.exception_location

(* C18: a compile halts at the first error with exactly one diagnostic: a   *)
(* failing run prints one message, the message is that of the first fatal   *)
(* condition raised, html_lex adds no token after an error, and a failure   *)
(* of html_lex is returned by html_parse without the parser having run      *)
(* (node_count and attrib_count unchanged).                                 *)
C18_Step == HaltsWithOneDiagnostic /\ FirstExceptionKept

C18_HaltsAtFirstError == [][C18_Step]_vars

(* the claim without the clause on the first fatal condition *)
HaltsWithOneDiagnosticAlways == [][HaltsWithOneDiagnostic]_vars

(* the 1-based line and column of input offset o *)
NewlinesBefore(o) == {i \in 0..o - 1 : At(i) = CharCode["\n"]}
LineOf(o) == 1 + Cardinality(NewlinesBefore(o))
ColumnOf(o) ==
    IF NewlinesBefore(o) = {} THEN 1 + o
    ELSE 1 + (o - Max(NewlinesBefore(o)) - 1)

(* the offset a failed run's error is about *)
OffendingOffset ==
    IF lexer.exception_pending # 0 THEN lexer.exception_location
    ELSE tokens[parser.exception_location + 1].begin

(* C19: the location printed with an error is the 1-based line and column   *)
(* of the offending offset o: the line is 1 + the newlines in [0, o), the   *)
(* column 1 + the code points between the last newline before o (or the     *)
(* buffer start) and o.  For a lexer error o is the recorded offset, the    *)
(* opening quote for an unterminated string; for a parser error o is the    *)
(* begin offset of the token at exception_location, which for 'Invalid      *)
(* syntax' is the token at which no alternative of read_node matched.       *)
C19_ErrorLocationIsLineColumn ==
    (pc = "done" /\ rc = -1) =>
        /\ Len(diag) = 1
        /\ OffendingOffset <= in_size
        /\ diag[1].line = LineOf(OffendingOffset)
        /\ diag[1].column = ColumnOf(OffendingOffset)
        /\ (lexer.exception_pending # 0
                /\ lexer.exception_msg = "Unterminated string literal") =>
               /\ OffendingOffset < in_size
               /\ At(OffendingOffset) \in {CharCode["\""], CharCode["'"]}
               /\ OffendingOffset = lexer.current
        /\ (lexer.exception_pending = 0 /\ parser.exception_msg = "Invalid syntax") =>
               /\ parser.exception_location = parser.current
               /\ parser.current < Len(tokens)
               /\ step.alt = "none"

(* a syntax error is reported on the third line, after two empty lines *)
C19_Witness ==
    /\ pc = "done"
    /\ rc = -1
    /\ in_data = DocLinesSyntax
    /\ diag = <<[who |-> "html_parse", msg |-> "Invalid syntax", line |-> 3, column |-> 2]>>

(* an unterminated string is reported at its opening quote on the second line *)
C19_WitnessString ==
    /\ pc = "done"
    /\ rc = -1
    /\ in_data = DocLinesString
    /\ diag = <<[who |-> "html_lex", msg |-> "Unterminated string literal",
                 line |-> 2, column |-> 3]>>

(* the smallest i in 0..hay_size - needle_size at which needle occurs in    *)
(* the hay_size cells from input offset hay, -1 when there is none          *)
FirstOccurrence(hay, needle, hay_size) ==
    LET S == {i \in 0..hay_size - Len(needle) : StartsAt(hay + i, needle)}
    IN IF S = {} THEN -1 ELSE Min(S)

(* the calls of unicode_find that read_token_cdata makes at the scan         *)
(* position: the hay is the rest of the input after a start marker, the     *)
(* needle the block's end marker                                            *)
FindCallsHere ==
    { [hay |-> lexer.current + Len(b.start), needle |-> b.end,
       hay_size |-> lexer.end - (lexer.current + Len(b.start))] :
          b \in {c \in CdataBlocks : AtScanPosition /\ StartsAt(lexer.current, c.start)} }

FindIsFirstOccurrence(call) ==
    \A r \in {unicode_find(call.hay, call.needle, ToSizeT(call.hay_size), Len(call.needle))} :
        /\ ~r.fault
        /\ r.res = FirstOccurrence(call.hay, call.needle, call.hay_size)

(* C20: unicode_find returns the smallest index at which the needle occurs  *)
(* wholly inside the hay and -1 when there is none, for every hay_size and  *)
(* needle_size, hay_size < needle_size included, and reads no cell of the   *)
(* hay at an index >= hay_size (such a read goes on to unmapped memory,     *)
(* no cell after the input holding the first code point of a needle).       *)
C20_FindReturnsFirstOccurrence ==
    \A call \in FindCallsHere : FindIsFirstOccurrence(call)

(* the same for the calls whose hay is empty or not shorter than the needle *)
FindCorrectUnlessHayShorter ==
    \A call \in FindCallsHere :
        (call.hay_size = 0 \/ call.hay_size >= Len(call.needle)) =>
            FindIsFirstOccurrence(call)

(* unicode_find is called with a needle that occurs in the hay after a      *)
(* cell that holds the needle's first code point                            *)
FindWitness ==
    \E call \in FindCallsHere :
        /\ FirstOccurrence(call.hay, call.needle, call.hay_size) > 0
        /\ \E i \in 0..FirstOccurrence(call.hay, call.needle, call.hay_size) - 1 :
               At(call.hay + i) = call.needle[1]

(* C21: in every state each stored token has begin <= end, and of two      *)
(* consecutive tokens the first ends at or before the begin of the second:  *)
(* tokens are stored in non-decreasing offset order and never overlap.      *)
C21_TokensOrderedDisjoint ==
    \A k \in 1..Len(tokens) :
        /\ tokens[k].begin <= tokens[k].end
        /\ k < Len(tokens) => tokens[k].end <= tokens[k + 1].begin

(* html_lex has stored an identifier, a string literal and a token after it *)
C21_Witness ==
    /\ pc = "lex"
    /\ \E k \in 2..Len(tokens) - 1 :
          /\ tokens[k].id = HTML_TOKEN_STRING
          /\ tokens[k].begin < tokens[k].end
          /\ tokens[k].end < tokens[k + 1].begin
          /\ \E j \in 1..k - 1 : tokens[j].id = HTML_TOKEN_IDENTIFIER

(* the run ended in an access of unmapped memory made by html_lex *)
LexerCrashed == pc = "crash" /\ parser.node_stack_size = 0

(* C22: html_lex reads no cell of the input buffer at an offset >= in_size  *)
(* and every token ends at an offset <= in_size, for every input, those     *)
(* ending inside an identifier, a whitespace run, a text run or a prefix of *)
(* a keyword included: no token and no scan position lies past in_size, and *)
(* no read of html_lex leaves mapped memory.                                *)
C22_LexerStaysInsideInput ==
    /\ \A k \in 1..Len(tokens) : tokens[k].end <= in_size
    /\ lexer.current <= in_size
    /\ ~LexerCrashed

(* the same for the inputs that do not end in an identifier character, a    *)
(* whitespace character or a text character, and hold no CDATA start marker *)
LexerInsideWhenInputEndsInPunctuation ==
    (/\ in_size > 0
     /\ char_type_check(in_data[in_size], {CHAR_INFO_NOT_TEXT})
     /\ \A b \in CdataBlocks : FirstAt(0, b.start) = -1) =>
        C22_LexerStaysInsideInput

(* the run ended in an access of unmapped memory made by html_parse *)
ParserCrashed == pc = "crash" /\ parser.node_stack_size > 0 /\ ~builder.fault

(* C23: no alternative of read_node inspects a token at an index >=         *)
(* tokens.count and parser.current never exceeds tokens.count, so that the  *)
(* outcome of html_parse does not depend on what unused token slots hold:   *)
(* after a html_lex that stayed inside the input, the parse position is at  *)
(* most the token count and no read of html_parse leaves the token table.   *)
C23_ParserStaysInsideTokens ==
    (TokensOverrun = 0 /\ lexer.current <= in_size) =>
        /\ parser.current <= Len(tokens)
        /\ ~ParserCrashed

(* the indices of the stored tokens of kind id *)
IndicesOf(id) == {k - 1 : k \in {j \in 1..Len(tokens) : tokens[j].id = id}}

(* the append_token calls of html_build that pass the representative of a   *)
(* kind that occurs among the stored tokens                                 *)
RepresentativeCalls ==
    {n \in 1..Len(builder.appended) :
        \E id \in LookedUpIds : builder.appended[n].want = {id} /\ IndicesOf(id) # {}}

(* C24 as stated: html_build's lookup maps each kind that occurs among the  *)
(* tokens to the index of the first token of that kind.                     *)
C24_FirstOccurrenceWins ==
    pc = "built" =>
        \A n \in RepresentativeCalls : \A id \in builder.appended[n].want :
            builder.appended[n].token_idx = Min(IndicesOf(id))

(* C24 amended: html_build's lookup maps each kind that occurs among the    *)
(* tokens to the index of the last token of that kind.                      *)
C24_LastOccurrenceWins ==
    pc = "built" =>
        \A n \in RepresentativeCalls : \A id \in builder.appended[n].want :
            builder.appended[n].token_idx = Max(IndicesOf(id))

(* html_build has looked up a kind of which the tokens hold several *)
C24_Witness ==
    /\ pc = "built"
    /\ \E n \in RepresentativeCalls : \E id \in builder.appended[n].want :
          /\ Min(IndicesOf(id)) < Max(IndicesOf(id))
          /\ builder.appended[n].token_idx = Max(IndicesOf(id))

(* the tags html_build has emitted, read off its append_token calls: a call *)
(* for `<` followed by one for `/` begins a close tag of four calls, any     *)
(* other call for `<` begins an open tag of three calls; tag is the          *)
(* tag-name token passed                                                     *)
RECURSIVE EmittedFrom(_)
EmittedFrom(n) ==
    IF n + 2 > Len(builder.appended) THEN << >>
    ELSE IF builder.appended[n + 1].want = {HTML_TOKEN_SLASH}
        THEN <<[kind |-> "close", tag |-> builder.appended[n + 2].token_idx]>>
             \o EmittedFrom(n + 4)
    ELSE <<[kind |-> "open", tag |-> builder.appended[n + 1].token_idx]>>
         \o EmittedFrom(n + 3)

Emitted == EmittedFrom(1)

Nodes == 0..tree.node_count - 1
OpensOf(i) ==
    {e \in 1..Len(Emitted) : Emitted[e] = [kind |-> "open", tag |-> tree.node_tag_name[i]]}
ClosesOf(i) ==
    {e \in 1..Len(Emitted) : Emitted[e] = [kind |-> "close", tag |-> tree.node_tag_name[i]]}
OpenAt(i) == CHOOSE e \in OpensOf(i) : TRUE
CloseAt(i) == CHOOSE e \in ClosesOf(i) : TRUE

(* node j is an ancestor of node i by the parent entries of the node table *)
RECURSIVE IsAncestor(_, _)
IsAncestor(j, i) ==
    /\ j < i
    /\ \/ tree.node_parent[i] = tree.node_tag_name[j]
       \/ \E k \in Nodes : /\ j < k /\ k < i
                           /\ tree.node_parent[i] = tree.node_tag_name[k]
                           /\ IsAncestor(j, k)

(* C25: for the tree of a successful html_parse html_build emits a properly *)
(* nested tag stream: every node gets exactly one open tag and exactly one  *)
(* later close tag and nothing else is emitted, the open tags come in node  *)
(* order, a node emitted earlier is still open at a node's open tag exactly *)
(* when it is an ancestor of the node (all others have been closed before   *)
(* it), every close tag closes the innermost open node, and a node's pair   *)
(* lies inside its parent's pair.                                           *)
C25_BuildEmitsNestedTags ==
    pc = "built" =>
        /\ Len(Emitted) = 2 * tree.node_count
        /\ Len(builder.appended) = 7 * tree.node_count
        /\ \A i \in Nodes :
              /\ Cardinality(OpensOf(i)) = 1
              /\ Cardinality(ClosesOf(i)) = 1
              /\ OpenAt(i) < CloseAt(i)
        /\ \A i, j \in Nodes :
              /\ i < j => OpenAt(i) < OpenAt(j)
              /\ j < i => (IsAncestor(j, i) <=> CloseAt(j) > OpenAt(i))
              /\ ~(OpenAt(i) < OpenAt(j) /\ OpenAt(j) < CloseAt(i) /\ CloseAt(i) < CloseAt(j))
              /\ tree.node_parent[i] = tree.node_tag_name[j] =>
                     (OpenAt(j) < OpenAt(i) /\ CloseAt(i) < CloseAt(j))

(* html_build has written a parent with two children, the first of which it *)
(* closed before it opened the second                                       *)
C25_Witness ==
    /\ pc = "built"
    /\ tree.node_count = 3
    /\ tree.node_parent[1] = tree.node_tag_name[0]
    /\ tree.node_parent[2] = tree.node_tag_name[0]
    /\ CloseAt(1) < OpenAt(2)
    /\ CloseAt(2) < CloseAt(0)

(* the five alternatives in the order the specification gives them *)
AlternativesInOrder == <<"open_tag", "close_tag", "variable", "text", "whitespace">>

(* the first alternative in that order that matches at the parse position,  *)
(* "none" when none does                                                    *)
MatchingHere ==
    {i \in 1..5 : read_node_alternative(parser, tree, AlternativesInOrder[i]).ret # 0}
FirstMatchingHere ==
    IF MatchingHere = {} THEN "none" ELSE AlternativesInOrder[Min(MatchingHere)]

(* C26: html_parse returns 0 only when every token has been consumed, each  *)
(* step consuming tokens by the first of the alternatives open tag, close   *)
(* tag, variable, text, whitespace that matches; at the first position      *)
(* where none matches it consumes nothing more and returns -1 with          *)
(* 'Invalid syntax' located at that token.                                  *)
C26_Step ==
    /\ (AtParsePosition /\ pc' # "crash") =>
           /\ step'.alt = FirstMatchingHere
           /\ FirstMatchingHere # "none" =>
                  /\ parser'.current > parser.current
                  /\ parser'.exception_msg # "Invalid syntax"
           /\ FirstMatchingHere = "none" =>
                  /\ parser'.current = parser.current
                  /\ parser'.exception_pending # 0
                  /\ parser'.exception_msg = "Invalid syntax"
                  /\ parser'.exception_location = parser.current
    /\ (pc = "parse" /\ ~AtParsePosition) =>
           /\ pc' = "done"
           /\ parser' = parser
           /\ rc' = 0 => (parser.exception_pending = 0 /\ parser.current >= Len(tokens))
           /\ parser.exception_pending # 0 =>
                  /\ rc' = -1
                  /\ diag' = <<[who |-> "html_parse", msg |-> parser.exception_msg,
                               line |-> LineOf(tokens[parser.exception_location + 1].begin),
                               column |-> ColumnOf(tokens[parser.exception_location + 1].begin)]>>

C26_ParseConsumesAllOrFails == [][C26_Step]_vars

(* html_parse has failed with 'Invalid syntax' at a token after the first,  *)
(* the tokens before it consumed and none after it                          *)
C26_Witness ==
    /\ pc = "done"
    /\ rc = -1
    /\ diag # << >>
    /\ diag[1].msg = "Invalid syntax"
    /\ parser.current > 0
    /\ parser.current < Len(tokens) - 1
    /\ parser.exception_location = parser.current
    /\ step.alt = "none"

(* the parser apart from the parse position *)
ExceptCurrent(P) == [P EXCEPT !.current = 0]
(* the parser apart from the parse position and the stack size *)
ExceptCurrentAndSize(P) == [P EXCEPT !.current = 0, !.node_stack_size = 0]

(* an alternative applied at the parse position that does not fault keeps   *)
(* what it must keep                                                        *)
FrameOfAlternativesHere ==
    /\ \A r \in {read_node_close_tag(parser, tree)} : ~r.fault =>
          /\ r.tree = tree
          /\ ExceptCurrentAndSize(r.parser) = ExceptCurrentAndSize(parser)
          /\ r.ret = 0 => r.parser = parser
    /\ \A r \in {read_node_text(parser, tree), read_node_whitespace(parser, tree)} :
          ~r.fault =>
              /\ r.tree = tree
              /\ ExceptCurrent(r.parser) = ExceptCurrent(parser)
              /\ r.ret = 0 => r.parser = parser
    /\ \A r \in {read_node_variable(parser, tree)} :
          (~r.fault /\ r.ret = 0) => (r.tree = tree /\ r.parser = parser)

(* C27: a close tag, matched or not, changes no count and no entry of the   *)
(* node and attribute tables; the text and whitespace alternatives change   *)
(* nothing but parser.current; and an alternative other than open tag that  *)
(* fails changes nothing: for the alternatives applied at every parse       *)
(* position, and for the step html_parse takes there.                       *)
C27_Step ==
    (AtParsePosition /\ pc' # "crash") =>
        /\ FrameOfAlternativesHere
        /\ step'.alt = "close_tag" =>
               /\ tree' = tree
               /\ ExceptCurrentAndSize(parser') = ExceptCurrentAndSize(parser)
               /\ parser'.node_stack_size <= parser.node_stack_size
        /\ step'.alt \in {"text", "whitespace"} =>
               /\ tree' = tree
               /\ ExceptCurrent(parser') = ExceptCurrent(parser)

C27_NonConstructingAlternativesFrame == [][C27_Step]_vars

(* a close tag has popped the stack of two open tags and left the node      *)
(* table with its two nodes                                                 *)
C27_Witness ==
    /\ pc = "parse"
    /\ step.alt = "close_tag"
    /\ step.stack_size = 3
    /\ parser.node_stack_size < 3
    /\ tree.node_count = 2

(* the tables after the step hold every entry the tables held before it *)
TablesExtended ==
    /\ tree'.node_count >= tree.node_count
    /\ tree'.attrib_count >= tree.attrib_count
    /\ \A i \in 0..tree.node_count - 1 :
          /\ tree'.node_parent[i] = tree.node_parent[i]
          /\ tree'.node_tag_name[i] = tree.node_tag_name[i]
    /\ \A i \in 0..tree.attrib_count - 1 :
          /\ tree'.attrib_parent[i] = tree.attrib_parent[i]
          /\ tree'.attrib_name[i] = tree.attrib_name[i]
          /\ tree'.attrib_value[i] = tree.attrib_value[i]

(* C28: the tree tables are append-only across the steps of html_parse:     *)
(* after a read_node step node_count and attrib_count are at least what     *)
(* they were and the entries below the earlier counts are unchanged; a      *)
(* failed open-tag attempt restores the counts and the stack size it found. *)
C28_Step ==
    (AtParsePosition /\ pc' # "crash") =>
        /\ TablesExtended
        /\ step'.alt = "none" =>
               /\ tree'.node_count = tree.node_count
               /\ tree'.attrib_count = tree.attrib_count
               /\ parser'.node_stack_size = parser.node_stack_size

C28_TablesAppendOnly == [][C28_Step]_vars

(* the same while the node table has room *)
TablesAppendOnlyWithRoom ==
    [][tree.node_count < HTML_PARSER_MAX_NODES => C28_Step]_vars

(* the sentinel of the nesting stack is in place and no recorded node is    *)
(* named by token 0, in parser P and tree TR                                *)
Sentinel(P, TR) ==
    /\ P.node_stack_size >= 1
    /\ P.node_stack[0] = 0
    /\ \A i \in 0..TR.node_count - 1 : TR.node_tag_name[i] >= 1

(* html_parse is in its loop with no exception pending: before the first    *)
(* read_node step, between two steps, or after the last                     *)
BetweenSteps(c, P) == c = "parse" /\ P.exception_pending = 0

(* C29: in every state between read_node steps node_stack_size >= 1 and     *)
(* node_stack[0] = 0, every recorded node's tag-name token index is >= 1,   *)
(* and a step that records a node gives it parent 0 exactly when only the   *)
(* sentinel was on the stack.                                               *)
C29_Step ==
    /\ BetweenSteps(pc, parser) => Sentinel(parser, tree)
    /\ BetweenSteps(pc', parser') => Sentinel(parser', tree')
    /\ (AtParsePosition /\ pc' # "crash" /\ tree'.node_count = tree.node_count + 1) =>
           /\ tree'.node_tag_name[tree.node_count] >= 1
           /\ tree'.node_parent[tree.node_count] = 0 <=> parser.node_stack_size = 1

SentinelAfterException ==
    (pc = "parse" /\ parser.exception_pending # 0) => Sentinel(parser, tree)

(* C30: a step of html_lex that raises no error stores exactly one token,   *)
(* which begins at or after the scan position, and moves the scan position  *)
(* strictly forward to the token's end or past it; the steps taken never    *)
(* outnumber the code points passed, so html_lex leaves its loop after at   *)
(* most in_size steps, having consumed the input or raised an error.        *)
C30_Step ==
    /\ (AtScanPosition /\ pc' # "crash") =>
           /\ Len(tokens) <= lexer.current
           /\ lexer.current < in_size
           /\ pc' = "lex"
           /\ lexer'.exception_pending = 0 =>
                  /\ Len(tokens') = Len(tokens) + 1
                  /\ SubSeq(tokens', 1, Len(tokens)) = tokens
                  /\ tokens'[Len(tokens')].begin >= lexer.current
                  /\ lexer'.current > lexer.current
                  /\ lexer'.current >= tokens'[Len(tokens')].end
    /\ (pc = "lex" /\ ~AtScanPosition) =>
           /\ pc' \in {"parse", "done"}
           /\ lexer' = lexer
           /\ lexer.exception_pending # 0 \/ lexer.current >= in_size

C30_LexerAdvances == [][C30_Step]_vars

(* html_lex has left its loop at the end of an input of several tokens,     *)
(* among them a string literal and a CDATA block                            *)
C30_Witness ==
    /\ pc = "parse"
    /\ lexer.current = in_size
    /\ \E k \in 1..Len(tokens) : tokens[k].id = HTML_TOKEN_STRING
    /\ \E k \in 1..Len(tokens) : tokens[k].id = HTML_TOKEN_COMMENT
    /\ Len(tokens) < in_size

(***************************************************************************)
(* UTF-8 decoding                                                          *)
(***************************************************************************)
(* the number of leading one bits of a byte *)
LeadingOnes(b) ==
    IF b < 128 THEN 0 ELSE IF b < 192 THEN 1 ELSE IF b < 224 THEN 2
    ELSE IF b < 240 THEN 3 ELSE IF b < 248 THEN 4 ELSE IF b < 252 THEN 5
    ELSE IF b < 254 THEN 6 ELSE IF b < 255 THEN 7 ELSE 8

IsContinuation(b) == b >= 128 /\ b < 192

(* the byte string holds an invalid sequence at p: a stray continuation     *)
(* byte, a lead byte announcing 6 or more bytes, or a lead byte one of      *)
(* whose announced continuation bytes is missing or is not a continuation   *)
Utf8InvalidAt(str, p) ==
    \/ LeadingOnes(str[p + 1]) = 1
    \/ LeadingOnes(str[p + 1]) >= 6
    \/ /\ LeadingOnes(str[p + 1]) \in 2..5
       /\ \E k \in 1..LeadingOnes(str[p + 1]) - 1 :
             p + k >= Len(str) \/ ~IsContinuation(str[p + k + 1])

Utf8WellFormed(str) ==
    \A p \in 0..Len(str) - 1 :
        \/ IsContinuation(str[p + 1])
              /\ \E k \in 1..3 : p - k >= 0 /\ LeadingOnes(str[p - k + 1]) > k
                                  /\ \A j \in 1..k - 1 : IsContinuation(str[p - j + 1])
        \/ ~IsContinuation(str[p + 1]) /\ ~Utf8InvalidAt(str, p)

(* On a well-formed byte string the decoder neither faults nor stalls.      *)
Utf8WellFormedDecodes ==
    [][Utf8WellFormed(utf8.in_str) /\ utf8.pc = "loop" /\ utf8.p < Len(utf8.in_str)
           => utf8'.pc = "loop" /\ utf8'.p > utf8.p /\ utf8'.code >= 0]_vars

Utf8WellFormedWitness ==
    /\ utf8.pc = "returned"
    /\ Len(utf8.in_str) = 2
    /\ utf8.out_str = << 233 >>

(* C31: decoding terminates on every byte string: no iteration of the       *)
(* decoding loop faults, every iteration moves the read position forward,   *)
(* and an iteration that starts at an invalid sequence yields -1.           *)
C31_DecodeAdvancesWithSentinel ==
    [][utf8.pc = "loop" /\ utf8.p < Len(utf8.in_str)
           => /\ utf8'.pc = "loop"
              /\ utf8'.p > utf8.p
              /\ (Utf8InvalidAt(utf8.in_str, utf8.p) => utf8'.code = -1)]_vars

(* C32: html_parse terminates: at a position inside the token sequence      *)
(* every alternative that returns nonzero has moved parser.current forward  *)
(* by at least one token, and so has every step that raises no error; a     *)
(* step is taken only while parser.current < tokens.count, so at most       *)
(* tokens.count steps are taken.                                            *)
C32_Step ==
    (AtParsePosition /\ pc' # "crash") =>
        /\ parser.current < Len(tokens)
        /\ \A i \in 1..5 :
              \A r \in {read_node_alternative(parser, tree, AlternativesInOrder[i])} :
                  (~r.fault /\ r.ret # 0) => r.parser.current >= parser.current + 1
        /\ pc' = "parse"
        /\ parser'.exception_pending = 0 => parser'.current >= parser.current + 1

C32_ParseTerminates == [][C32_Step]_vars

(* html_parse has returned 0 after several steps, the last one taken by the *)
(* text or whitespace alternative after an open tag, every token consumed   *)
C32_Witness ==
    /\ pc = "done"
    /\ rc = 0
    /\ parser.current = Len(tokens)
    /\ Len(tokens) >= 4
    /\ tree.node_count >= 1
    /\ step.alt \in {"text", "whitespace"}

(* C33: in a lexed input every HTML, DATA or INCLUDE token ends where the   *)
(* run of identifier characters (letters, digits, underscore) that begins   *)
(* at the token ends: a word that only begins with a keyword is not split   *)
(* into a keyword token and a rest.                                         *)
IsIdentifierChar(ch) == IsLetter(ch) \/ IsDigit(ch) \/ ch = CharCode["_"]

C33_KeywordIsWholeWord ==
    LexSucceeded =>
        \A k \in 1..Len(tokens) :
            (tokens[k].id \in {HTML_TOKEN_HTML, HTML_TOKEN_DATA, HTML_TOKEN_INCLUDE}
                 /\ tokens[k].end < in_size)
                => ~IsIdentifierChar(At(tokens[k].end))

(* a keyword followed by a character that is not an identifier character    *)
(* is a keyword token                                                       *)
KeywordTokenWitness ==
    /\ LexSucceeded
    /\ \E k \in 1..Len(tokens) :
          tokens[k].id = HTML_TOKEN_DATA /\ tokens[k].end < in_size

(* C34: on inputs of non-negative code points some branch of read_token    *)
(* matches at every scan position, so 'Unrecognized token' is never raised: *)
(* the only errors of html_lex are 'Unterminated string literal' and 'Not   *)
(* enough space for tokens'.                                                *)
C34_Step ==
    /\ \A o \in 1..in_size : in_data[o] >= 0
    /\ AtScanPosition =>
           \A r \in {read_token(lexer, tokens)} : r.fault \/ r.ret # 0
    /\ pc' \in {"lex", "parse", "done"} =>
           /\ lexer'.exception_msg \in {"", "Unterminated string literal",
                                        "Not enough space for tokens"}
           /\ \A i \in 1..Len(diag') : diag'[i].msg # "Unrecognized token"

C34_LexerTotal == [][C34_Step]_vars

(* a code point outside the ASCII range has been lexed as a text token *)
C34_Witness ==
    /\ LexSucceeded
    /\ in_size = 1
    /\ in_data[1] > 127
    /\ Len(tokens) = 1
    /\ tokens[1].id = HTML_TOKEN_TEXT

(* the kinds a grammar alternative can consume, and the stored tokens of    *)
(* any other kind                                                           *)
ParsableKinds ==
    {HTML_TOKEN_LESSTHAN, HTML_TOKEN_GREATERTHAN, HTML_TOKEN_SLASH, HTML_TOKEN_EQUAL,
     HTML_TOKEN_OPENBRACE, HTML_TOKEN_CLOSEBRACE, HTML_TOKEN_IDENTIFIER, HTML_TOKEN_HTML,
     HTML_TOKEN_WHITESPACE, HTML_TOKEN_STRING, HTML_TOKEN_TEXT}
OtherKindTokens == {k \in 1..Len(tokens) : tokens[k].id \notin ParsableKinds}

(* html_parse returns 0 only on tokens of parsable kinds, never moves past  *)
(* a token of another kind, and on returning with such a token stored has   *)
(* failed with one diagnostic, whose message is in msgs, located at or      *)
(* before the first such token                                              *)
FailsAtOtherKind(msgs) ==
    /\ (pc \in {"done", "built"} /\ rc = 0 /\ lexer.exception_pending = 0)
           => OtherKindTokens = {}
    /\ (pc \in {"parse", "done"} /\ lexer.exception_pending = 0 /\ OtherKindTokens # {})
           => parser.current < Min(OtherKindTokens)
    /\ (pc = "done" /\ lexer.exception_pending = 0 /\ OtherKindTokens # {})
           => /\ rc = -1
              /\ Len(diag) = 1
              /\ diag[1].msg \in msgs
              /\ parser.exception_location < Min(OtherKindTokens)

StackIsParentChain ==
    \A k \in 1..parser.node_stack_size - 1 :
        \E n \in 0..tree.node_count - 1 :
            /\ tree.node_tag_name[n] = parser.node_stack[k]
            /\ tree.node_parent[n] = parser.node_stack[k - 1]

(* C36: in every state the parser's nesting stack is a parent chain of      *)
(* recorded nodes: each entry above the sentinel is the tag-name token of a *)
(* recorded node whose parent is the entry below it.  Hence the stack of    *)
(* html_build after its pops and its push for node i is the parser's stack  *)
(* without the sentinel right after node i was pushed.                      *)
C36_StackIsParentChain ==
    /\ pc \in {"parse", "done", "built"} => StackIsParentChain
    /\ (pc = "built" \/ builder.fault) =>
           /\ Len(builder.stacks) <= Len(pushed)
           /\ \A i \in 1..Len(builder.stacks) : builder.stacks[i] = pushed[i].stack
    /\ pc = "built" => Len(builder.stacks) = tree.node_count

(* html_build has run on a tree of an element and two nodes nested in it,   *)
(* the first of the two popped before the second was pushed                 *)
C36_Witness ==
    /\ pc = "built"
    /\ tree.node_count = 3
    /\ Len(builder.stacks[2]) = 2
    /\ Len(builder.stacks[3]) = 2
    /\ builder.stacks[3] # builder.stacks[2]
    /\ parser.node_stack_size = 2

(* the capacities of html_parser.h as shipped *)
SHIPPED_MAX_TOKENS == 2048
SHIPPED_MAX_ATTRIBUTES == 2048
SHIPPED_MAX_STACK_SIZE == 1000

(* the slots of the token table: the stored tokens and the unused slots     *)
TableSlots == Len(tokens) + Len(stale)

(* the attribute slots written so far, those of a failed open tag included: *)
(* a written slot holds the index of a name token, which is never 0         *)
WrittenAttributes ==
    {a \in 0..HTML_PARSER_MAX_ATTRIBUTES - 1 : tree.attrib_name[a] # 0}

(* C37: neither attrib_count nor node_stack_size is checked, but every      *)
(* stack entry above the sentinel costs three token slots and every         *)
(* attribute slot written, speculative ones included, one slot after the    *)
(* two of `<` and the tag name; with 2048 token slots this keeps attribute  *)
(* indices below 2048 and the stacks of html_parse and html_build within    *)
(* 1000 entries.                                                            *)
C37_CapacitiesSuffice ==
    /\ pc \in {"parse", "done", "built"} =>
           /\ parser.current <= TableSlots
           /\ 3 * (parser.node_stack_size - 1) <= parser.current
           /\ parser.node_stack_size <= HTML_PARSER_MAX_STACK_SIZE
           /\ tree.attrib_count < HTML_PARSER_MAX_ATTRIBUTES
           /\ \A a \in 0..tree.attrib_count - 1 : a \in WrittenAttributes
           /\ \A a \in WrittenAttributes :
                  /\ a + 2 <= tree.attrib_name[a]
                  /\ tree.attrib_name[a] <= TableSlots - 1
    /\ \A i \in 1..Len(builder.stacks) :
           /\ 3 * Len(builder.stacks[i]) <= TableSlots
           /\ Len(builder.stacks[i]) <= HTML_PARSER_MAX_STACK_SIZE
    /\ (SHIPPED_MAX_TOKENS - 1) - 2 < SHIPPED_MAX_ATTRIBUTES
    /\ 1 + (SHIPPED_MAX_TOKENS \div 3) <= SHIPPED_MAX_STACK_SIZE

(* html_parse has recorded an open tag with two attributes, which is still  *)
(* on the stack when it returns                                             *)
C37_Witness ==
    /\ pc = "done"
    /\ rc = 0
    /\ tree.attrib_count >= 2
    /\ tree.node_count >= 1
    /\ parser.node_stack_size >= 2

(* the append_token call that stopped html_build asked for more cells than  *)
(* the output buffer had left                                               *)
OutputOverflow ==
    /\ builder.fault
    /\ builder.appended # << >>
    /\ \E c \in {builder.appended[Len(builder.appended)]} :
          /\ c.token_idx < Len(tokens)
          /\ builder.current + (tokens[c.token_idx + 1].end - tokens[c.token_idx + 1].begin)
                 > HTML_PARSER_MAX_SIZE

(* C38: html_build never writes more than HTML_PARSER_MAX_SIZE code points: *)
(* for every tree of html_parse, however long its tag names, the output     *)
(* length stays within the buffer and max_size never falls below zero.      *)
C38_OutputFitsBuffer ==
    /\ builder.current <= HTML_PARSER_MAX_SIZE
    /\ builder.max_size >= 0
    /\ ~OutputOverflow

(* html_build has written a whole document without leaving the buffer *)
BuildFitsWitness ==
    /\ pc = "built"
    /\ builder.current >= 20
    /\ builder.current + builder.max_size = HTML_PARSER_MAX_SIZE

(* html_lex is about to call read_token at a quote character *)
AtQuote ==
    AtScanPosition /\ At(lexer.current) \in {CharCode["'"], CharCode["\""]}

(* no stored token is a SINGLEQUOTE or DOUBLEQUOTE; at a quote the string   *)
(* branch returns nonzero, and the step either stores a STRING token or     *)
(* stores nothing and raises an error whose message is in msgs              *)
QuotesLexAsStrings(msgs) ==
    /\ \A k \in 1..Len(tokens') :
           tokens'[k].id \notin {HTML_TOKEN_SINGLEQUOTE, HTML_TOKEN_DOUBLEQUOTE}
    /\ AtQuote =>
           /\ pc' = "lex"
           /\ \A r \in {read_token_string(lexer, tokens)} : ~r.fault /\ r.ret # 0
           /\ \/ /\ lexer'.exception_pending = 0
                 /\ Len(tokens') = Len(tokens) + 1
                 /\ tokens'[Len(tokens')].id = HTML_TOKEN_STRING
              \/ /\ lexer'.exception_pending # 0
                 /\ tokens' = tokens
                 /\ lexer'.exception_msg \in msgs

(* C39: html_lex never emits SINGLEQUOTE or DOUBLEQUOTE: at a quote the     *)
(* string branch, tried first, either emits a STRING token or raises        *)
(* 'Unterminated string literal', so the branches for the two quote         *)
(* characters are never reached.                                            *)
C39_QuoteIsStringOrUnterminated ==
    [][QuotesLexAsStrings({"Unterminated string literal"})]_vars

(* C39, amended: ... either emits a STRING token or raises a fatal error,   *)
(* 'Unterminated string literal' or, the token table being full, 'Not       *)
(* enough space for tokens'.                                                *)
C39_QuoteIsStringOrError ==
    [][QuotesLexAsStrings({"Unterminated string literal",
                           "Not enough space for tokens"})]_vars

(* html_lex has lexed an input that holds both quote characters, one of     *)
(* them inside a string literal delimited by the other                      *)
C39_Witness ==
    /\ LexSucceeded
    /\ \E o \in 0..in_size - 1 : At(o) = CharCode["'"]
    /\ \E o \in 0..in_size - 1 : At(o) = CharCode["\""]
    /\ \E k \in 1..Len(tokens) : tokens[k].id = HTML_TOKEN_STRING

(* char_type_check answers from the table for the code points 0..127 and   *)
(* with 0, the table untouched, for those above 127                         *)
CharTypeCheckFromZeroUp ==
    (lookup.pc = "ret" /\ lookup.ch >= 0) =>
        /\ lookup.index \subseteq 0..127
        /\ lookup.ch > 127 => (lookup.index = {} /\ ~lookup.ret)
        /\ lookup.ch <= 127 => (lookup.index = {lookup.ch}
                                /\ lookup.ret = (char_info[lookup.ch] \in lookup.flags))

CharTypeCheckWitness ==
    lookup.pc = "ret" /\ lookup.ch = 97 /\ lookup.ret /\ lookup.index = {97}

(* C40: for every code point it is called with, the decoder's -1 included,  *)
(* char_type_check reads char_info only at indices 0..127, and for a code   *)
(* point outside 0..127 it returns 0 without reading the table.             *)
C40_IndexInsideTable ==
    lookup.pc = "ret" =>
        /\ lookup.index \subseteq 0..127
        /\ lookup.ch \notin 0..127 => (lookup.index = {} /\ ~lookup.ret)

====
